---------------------------- MODULE Spec2Model ----------------------------
(***************************************************************************)
(* A model of AggregationPipelineBuilder (mongo-pipeliner).                *)
(*                                                                         *)
(* The builder keeps a reference to a JavaScript array (this.pipeline) and *)
(* an optional mongoose model (this.collection).  Arrays are objects with  *)
(* identity: the constructor stores the caller's seed array itself,        *)
(* assemble() returns the internal array itself and reset() binds a new    *)
(* array.  The model therefore keeps a heap of arrays and lets the builder *)
(* hold an array identifier.                                               *)
(***************************************************************************)
EXTENDS Integers, Sequences, FiniteSets, TLC

VARIABLES
  heap,        \* array identifier -> contents (sequence of stage descriptors)
  pipeline,    \* builder -> array identifier           (this.pipeline)
  collection,  \* builder -> bound model or NoCollection (this.collection)
  inflight,    \* aggregate(...).exec() round trips not yet delivered
  ret,         \* what the last call returned to the caller
  seeds,       \* arrays the caller passed to a constructor
  owned,       \* arrays returned by assemble(true)
  lent,        \* arrays returned by assemble(false): the caller has them in
               \*          hand while a builder may still push to them
  base,        \* history: builder -> seed contents still in the current chain
  appended,    \* history: builder -> descriptors the mutators were asked to
               \*          append since construction or the last clearing
  calls,       \* history: builder -> the mutator calls made since then
  kept,        \* history: builder -> what the first assemble(false) since
               \*          construction or the last clearing returned (P), and
               \*          what the mutators were asked to append since (D)
  submitted    \* history: builder -> the sequences its execute() calls have
               \*          submitted since construction or the last clearing
               \*          (snap), each with the number of descriptors the
               \*          mutators had been asked to append by then (at)

vars == <<heap, pipeline, collection, inflight, ret, seeds, owned, lent,
          base, appended, calls, kept, submitted>>

-----------------------------------------------------------------------------
(* Bounds of the model.                                                    *)

\* Descriptors in the heap, all arrays together.
MaxStages == 3
\* Arrays created in one behaviour (the seed or the constructor's array, and
\* one for every clearing of the pipeline).
MaxArrays == 3
\* execute() calls waiting for the executor at the same time.
MaxPending == 1
\* Descriptors a chain holds when a mutator is still called on it, in the
\* behaviours that only build (SpecMutators).
MaxBuild == 2
\* Descriptors a pipeline holds after a helper that ends in execute(), which
\* nothing clears (SpecListExecuted).
MaxSubmitted == 6

-----------------------------------------------------------------------------
(* Values.                                                                 *)

\* JavaScript's undefined (an omitted property or argument).
Undefined == "undefined"
\* this.collection of a builder constructed without a model.
NoCollection == "no collection"
\* new Error('No collection defined for this AggregationBuilder.')
NoCollectionError == "No collection defined for this AggregationBuilder."

\* An optional argument: <<>> when omitted, <<v>> when given.
Omitted == <<>>
Given(v) == <<v>>
\* A parameter default (limit = 10, reset = true, ...): used when the
\* argument is omitted.
Default(opt, d) == IF opt = Omitted THEN d ELSE opt[1]

\* A property of a parameter object; undefined when the object has none.
Prop(params, key) == IF key \in DOMAIN params THEN params[key] ELSE Undefined
\* JavaScript truthiness of the values the parameter objects carry.
Truthy(v) == v \notin {Undefined, ""}
\* a || b
OrElse(v, d) == IF Truthy(v) THEN v ELSE d

\* A stage descriptor { kind: payload }: a mapping with the single key kind.
Stage(kind, payload) == kind :> payload
KindOf(stage) == CHOOSE k \in DOMAIN stage : TRUE

-----------------------------------------------------------------------------
(* The arguments the calls are made with.  Payloads are passed through     *)
(* verbatim by the code, so one value per mutator is enough for the        *)
(* lifecycle; the mutators that compute their payload have wider sets.     *)

MatchArgs == {[is_verified |-> TRUE]}
GroupArgs == {[_id |-> "gender", total |-> ("$sum" :> 1)]}
SortArgs == {[name |-> 1]}
LimitArgs == {10}
SkipArgs == {0}
SetArgs == {[total |-> "$total"]}
UnsetArgs == {"_id"}
ProjectArgs == {[name |-> 1, status |-> 1]}
CountArgs == {"total"}
FacetArgs == {[byGender |-> <<("$sortByCount" :> "$gender")>>]}
OutArgs == {"archive"}
MergeArgs ==
  {[into |-> [db |-> "sharded_db1", coll |-> "sharded_coll1"],
    whenMatched |-> "keepExisting", whenNotMatched |-> "insert"]}
UnionWithArgs == {<<"archive", <<>>>>}
LookupArgs ==
  {[from |-> "bookings", localField |-> "bookingId", foreignField |-> "_id",
    as |-> "bookings"]}
\* <<path, preserveNullAndEmptyArrays>>, the second optional
UnwindArgs == {<<"$bookings", Given(TRUE)>>}
AddFieldsArgs == {[newField |-> "myvalue"]}
\* localField is a string ([str |-> s]) or a { ref, alias } pair
CustomLookupArgs ==
  {[collectionName |-> "bookings", localField |-> [str |-> "bookingId"],
    as |-> "bookings",
    matchExpression |-> ("$eq" :> <<"$_id", "$$bookingId">>),
    projection |-> [_id |-> 0, name |-> 1, date |-> 1]]}
\* <<limit, page>>, both optional
PaginateArgs == {<<Omitted, Omitted>>, <<Given(10), Given(1)>>}
AddCustomArgs == {Stage("$sample", [size |-> 1])}

\* The pipelines a caller seeds a builder with.
SeedPipelines == {<<>>, <<Stage("$match", [is_verified |-> TRUE])>>}
\* The models a builder is bound to.
Collections == {"User"}
\* What the executor answers: result documents, or a failure of its own.
Results == {"docs"}
Failures == {"MongoServerError"}

-----------------------------------------------------------------------------
(* The heap of arrays.                                                     *)

ArrayIds == 1..MaxArrays

RECURSIVE TotalLen(_, _)
TotalLen(h, ids) ==
  IF ids = {} THEN 0
  ELSE LET a == CHOOSE i \in ids : TRUE
       IN  Len(h[a]) + TotalLen(h, ids \ {a})

\* Room for n more descriptors within the bound.
Room(n) == TotalLen(heap, DOMAIN heap) + n <= MaxStages

\* A slip: array.unshift(stage), the descriptor put in front.
PushFront(h, a, stage) == [h EXCEPT ![a] = <<stage>> \o @]

\* A slip: this.pipeline = [stage], an assignment in place of a push.
PushOverwrite(h, a, stage) == [h EXCEPT ![a] = <<stage>>]

\* array.push(stage)
Push(h, a, stage) == [h EXCEPT ![a] = Append(@, stage)]

\* The identifier a newly created array gets: arrays are numbered in the
\* order of their creation.
Fresh(h) == Cardinality(DOMAIN h) + 1

-----------------------------------------------------------------------------
(* The descriptors the mutators build from their parameters.               *)

\* A slip: the optional behaviours passed through without their defaults.
MergeStageNoDefaults(params) ==
  Stage("$merge",
        [into |-> Prop(params, "into"),
         on |-> Prop(params, "on"),
         whenMatched |-> Prop(params, "whenMatched"),
         whenNotMatched |-> Prop(params, "whenNotMatched")])

\* merge: { $merge: { into, on, whenMatched || 'merge', whenNotMatched || 'insert' } }
MergeStage(params) ==
  Stage("$merge",
        [into |-> Prop(params, "into"),
         on |-> Prop(params, "on"),
         whenMatched |-> OrElse(Prop(params, "whenMatched"), "merge"),
         whenNotMatched |-> OrElse(Prop(params, "whenNotMatched"), "insert")])

\* unionWith: { $unionWith: { coll: collectionName, pipeline } }
UnionWithStage(collectionName, pl) ==
  Stage("$unionWith", [coll |-> collectionName, pipeline |-> pl])

\* lookup: { $lookup: { from, localField, foreignField, as } }
LookupStage(params) ==
  Stage("$lookup",
        [from |-> Prop(params, "from"),
         localField |-> Prop(params, "localField"),
         foreignField |-> Prop(params, "foreignField"),
         as |-> Prop(params, "as")])

\* A slip: the flag true when omitted, as customUnwindLookup has it.
UnwindStagePreserves(path, preserveOpt) ==
  Stage("$unwind",
        [path |-> path, preserveNullAndEmptyArrays |-> Default(preserveOpt, TRUE)])

\* unwind: { $unwind: { path, preserveNullAndEmptyArrays } }, the flag false
\* when omitted
UnwindStage(path, preserveOpt) ==
  Stage("$unwind",
        [path |-> path, preserveNullAndEmptyArrays |-> Default(preserveOpt, FALSE)])

\* typeof params.localField === 'string'
IsString(localField) == DOMAIN localField = {"str"}

\* if (params.key) for a property that holds an object when it is given:
\* an object is truthy, undefined is not.
GivenObject(params, key) == key \in DOMAIN params

\* A slip: the projection pushed before the filter.
LookupPipelineProjectionFirst(params) ==
  (IF GivenObject(params, "projection")
   THEN <<Stage("$project", params.projection)>>
   ELSE <<>>)
  \o
  (IF GivenObject(params, "matchExpression")
   THEN <<Stage("$match", Stage("$expr", params.matchExpression))>>
   ELSE <<>>)

\* customLookup: the sub-pipeline, filter first, projection second
LookupPipeline(params) ==
  (IF GivenObject(params, "matchExpression")
   THEN <<Stage("$match", Stage("$expr", params.matchExpression))>>
   ELSE <<>>)
  \o
  (IF GivenObject(params, "projection")
   THEN <<Stage("$project", params.projection)>>
   ELSE <<>>)

\* A slip: the join written in the form lookup emits, on the field itself.
CustomLookupStageFlat(params) ==
  LET lf == params.localField
  IN  Stage("$lookup",
            [from |-> params.collectionName,
             localField |-> IF IsString(lf) THEN lf.str ELSE lf.ref,
             foreignField |-> "_id",
             as |-> params.as])

\* A slip: the variable named after the referenced field, the alias unused.
CustomLookupStageNoAlias(params) ==
  LET lf == params.localField
      path == IF IsString(lf) THEN lf.str ELSE lf.ref
  IN  Stage("$lookup",
            [from |-> params.collectionName,
             let |-> (path :> ("$" \o path)),
             pipeline |-> LookupPipeline(params),
             as |-> params.as])

\* customLookup: { $lookup: { from, let: { [name]: '$' + path }, pipeline, as } }
CustomLookupStage(params) ==
  LET lf == params.localField
      name == IF IsString(lf) THEN lf.str ELSE lf.alias
      path == IF IsString(lf) THEN lf.str ELSE lf.ref
  IN  Stage("$lookup",
            [from |-> params.collectionName,
             let |-> (name :> ("$" \o path)),
             pipeline |-> LookupPipeline(params),
             as |-> params.as])

\* A slip: the flag read from the parameter object when it carries one.
CustomUnwindStageFromParams(params) ==
  Stage("$unwind",
        [path |-> "$" \o params.as,
         preserveNullAndEmptyArrays |->
           IF "preserveNullAndEmptyArrays" \in DOMAIN params
           THEN params.preserveNullAndEmptyArrays ELSE TRUE])

\* customUnwindLookup: what it pushes itself after this.customLookup(params)
CustomUnwindStage(params) ==
  Stage("$unwind",
        [path |-> "$" \o params.as, preserveNullAndEmptyArrays |-> TRUE])

\* A slip: a guard that is not in the code, pages below 1 read as page 1.
PaginateSkipGuarded(limitOpt, pageOpt) ==
  Stage("$skip",
        Default(limitOpt, 10)
          * ((IF Default(pageOpt, 1) < 1 THEN 1 ELSE Default(pageOpt, 1)) - 1))

\* A slip: the skip counted from page 0, limit * page.
PaginateSkipFromPage(limitOpt, pageOpt) ==
  Stage("$skip", Default(limitOpt, 10) * Default(pageOpt, 1))

\* paginate: { $skip: limit * (page - 1) }
PaginateSkip(limitOpt, pageOpt) ==
  Stage("$skip", Default(limitOpt, 10) * (Default(pageOpt, 1) - 1))

\* paginate: { $limit: limit }
PaginateLimit(limitOpt, pageOpt) == Stage("$limit", Default(limitOpt, 10))

-----------------------------------------------------------------------------
(* Construction.                                                           *)

Builders == DOMAIN pipeline

\* No assemble(false) result is tracked.
NoKept == [valid |-> FALSE, P |-> <<>>, D |-> <<>>]

\* What a call returned: the builder itself ("self"), an array ("array"),
\* nothing ("void"), a promise not yet settled ("pending"), or the outcome of
\* a promise ("resolved", "rejected"); with the call's name and arguments.
\* prev tells, for an assemble, whether the call before it cleared the
\* pipeline.
Return(op, b, args, kind, ref, val) ==
  [op |-> op, self |-> b, args |-> args, kind |-> kind, ref |-> ref, val |-> val,
   prev |-> IF op # "assemble" THEN "-"
            ELSE IF ret.op = "reset" THEN "reset"
            ELSE IF ret.op = "assemble" /\ ret.args # <<Given(FALSE)>>
                 THEN "assemble(true)"
            ELSE "other"]

\* constructor(collection?, pipeline?): this.pipeline = pipeline || []
\* An array is truthy even when empty, so a given seed is always kept.
\* seedOpt is the caller's array (it gets the identifier 1), or omitted.
\* A slip: this.pipeline = [], the pipeline argument dropped.
ConstructorDropsSeed(b, coll, seedOpt) ==
  /\ heap = 1 :> <<>>
  /\ pipeline = b :> 1
  /\ collection = b :> coll
  /\ seeds = IF seedOpt = Omitted THEN {} ELSE {1}
  /\ base = b :> Default(seedOpt, <<>>)
  /\ appended = b :> <<>>
  /\ calls = b :> <<>>
  /\ kept = b :> NoKept
  /\ submitted = b :> {}

Constructor(b, coll, seedOpt) ==
  /\ heap = 1 :> Default(seedOpt, <<>>)
  /\ pipeline = b :> 1
  /\ collection = b :> coll
  /\ seeds = IF seedOpt = Omitted THEN {} ELSE {1}
  /\ base = b :> Default(seedOpt, <<>>)
  /\ appended = b :> <<>>
  /\ calls = b :> <<>>
  /\ kept = b :> NoKept
  /\ submitted = b :> {}

Init ==
  /\ \E coll \in Collections \cup {NoCollection} :
       \E seedOpt \in {Omitted} \cup {Given(s) : s \in SeedPipelines} :
         Constructor(1, coll, seedOpt)
  /\ inflight = <<>>
  /\ owned = {}
  /\ lent = {}
  /\ ret = [op |-> "constructor", self |-> 1, args |-> <<>>, kind |-> "self",
            ref |-> 1, val |-> "", prev |-> "-"]

-----------------------------------------------------------------------------
(* The mutators.                                                           *)

\* A slip: a builder that refuses to be extended while a request of its own
\* is with the executor.
ChainWhenIdle(b, op, args, h2, stages) ==
  /\ \A i \in DOMAIN inflight : inflight[i].self # b
  /\ Room(Len(stages))
  /\ heap' = h2
  /\ ret' = Return(op, b, args, "self", b, "")
  /\ appended' = [appended EXCEPT ![b] = @ \o stages]
  /\ calls' = [calls EXCEPT ![b] = Append(@, op)]
  /\ kept' = [kept EXCEPT ![b] = IF @.valid THEN [@ EXCEPT !.D = @ \o stages] ELSE @]
  /\ UNCHANGED <<pipeline, collection, inflight, seeds, owned, lent, base, submitted>>

\* The part every mutator shares: the heap has become h2, and the call
\* returns this.  The history notes the call and the descriptors it was
\* asked to append.
Chain(b, op, args, h2, stages) ==
  /\ Room(Len(stages))
  /\ heap' = h2
  /\ ret' = Return(op, b, args, "self", b, "")
  /\ appended' = [appended EXCEPT ![b] = @ \o stages]
  /\ calls' = [calls EXCEPT ![b] = Append(@, op)]
  /\ kept' = [kept EXCEPT ![b] = IF @.valid THEN [@ EXCEPT !.D = @ \o stages] ELSE @]
  /\ UNCHANGED <<pipeline, collection, inflight, seeds, owned, lent, base, submitted>>

match(b, m) ==
  Chain(b, "match", <<m>>, Push(heap, pipeline[b], Stage("$match", m)),
        <<Stage("$match", m)>>)

group(b, g) ==
  Chain(b, "group", <<g>>, Push(heap, pipeline[b], Stage("$group", g)),
        <<Stage("$group", g)>>)

sort(b, s) ==
  Chain(b, "sort", <<s>>, Push(heap, pipeline[b], Stage("$sort", s)),
        <<Stage("$sort", s)>>)

limit(b, n) ==
  Chain(b, "limit", <<n>>, Push(heap, pipeline[b], Stage("$limit", n)),
        <<Stage("$limit", n)>>)

skip(b, n) ==
  Chain(b, "skip", <<n>>, Push(heap, pipeline[b], Stage("$skip", n)),
        <<Stage("$skip", n)>>)

set(b, payload) ==
  Chain(b, "set", <<payload>>, Push(heap, pipeline[b], Stage("$set", payload)),
        <<Stage("$set", payload)>>)

unset(b, prop) ==
  Chain(b, "unset", <<prop>>, Push(heap, pipeline[b], Stage("$unset", prop)),
        <<Stage("$unset", prop)>>)

project(b, projection) ==
  Chain(b, "project", <<projection>>, Push(heap, pipeline[b], Stage("$project", projection)),
        <<Stage("$project", projection)>>)

count(b, c) ==
  Chain(b, "count", <<c>>, Push(heap, pipeline[b], Stage("$count", c)),
        <<Stage("$count", c)>>)

facet(b, params) ==
  Chain(b, "facet", <<params>>, Push(heap, pipeline[b], Stage("$facet", params)),
        <<Stage("$facet", params)>>)

out(b, collectionName) ==
  Chain(b, "out", <<collectionName>>, Push(heap, pipeline[b], Stage("$out", collectionName)),
        <<Stage("$out", collectionName)>>)

merge(b, params) ==
  Chain(b, "merge", <<params>>, Push(heap, pipeline[b], MergeStage(params)),
        <<MergeStage(params)>>)

unionWith(b, collectionName, pl) ==
  Chain(b, "unionWith", <<collectionName, pl>>, Push(heap, pipeline[b], UnionWithStage(collectionName, pl)),
        <<UnionWithStage(collectionName, pl)>>)

lookup(b, params) ==
  Chain(b, "lookup", <<params>>, Push(heap, pipeline[b], LookupStage(params)),
        <<LookupStage(params)>>)

unwind(b, path, preserveOpt) ==
  Chain(b, "unwind", <<path, preserveOpt>>, Push(heap, pipeline[b], UnwindStage(path, preserveOpt)),
        <<UnwindStage(path, preserveOpt)>>)

addFields(b, fields) ==
  Chain(b, "addFields", <<fields>>, Push(heap, pipeline[b], Stage("$addFields", fields)),
        <<Stage("$addFields", fields)>>)

\* The heap after customLookup(params) has run on h.
CustomLookupPush(h, b, params) == Push(h, pipeline[b], CustomLookupStage(params))

customLookup(b, params) ==
  Chain(b, "customLookup", <<params>>, CustomLookupPush(heap, b, params),
        <<CustomLookupStage(params)>>)

\* A slip: the method gives way between its two pushes, so that other
\* calls see the join descriptor alone.
customUnwindLookupSuspended(b, params) ==
  Chain(b, "customUnwindLookup", <<params>>, CustomLookupPush(heap, b, params),
        <<CustomLookupStage(params)>>)

\* this.customLookup(params); this.pipeline.push({ $unwind: ... })
customUnwindLookup(b, params) ==
  Chain(b, "customUnwindLookup", <<params>>,
        Push(CustomLookupPush(heap, b, params), pipeline[b], CustomUnwindStage(params)),
        <<CustomLookupStage(params), CustomUnwindStage(params)>>)

\* push({ $skip }); push({ $limit })
paginate(b, limitOpt, pageOpt) ==
  Chain(b, "paginate", <<limitOpt, pageOpt>>,
        Push(Push(heap, pipeline[b], PaginateSkip(limitOpt, pageOpt)),
             pipeline[b], PaginateLimit(limitOpt, pageOpt)),
        <<PaginateSkip(limitOpt, pageOpt), PaginateLimit(limitOpt, pageOpt)>>)

addCustom(b, stage) ==
  Chain(b, "addCustom", <<stage>>, Push(heap, pipeline[b], stage), <<stage>>)

-----------------------------------------------------------------------------
(* reset, assemble, execute.                                               *)

\* A slip: this.pipeline.length = 0, the array emptied where it is.
ResetInPlace(b) ==
  [heap |-> [heap EXCEPT ![pipeline[b]] = <<>>], pipeline |-> pipeline]

\* A slip: a reset() that does nothing.
ResetNothing(b) == [heap |-> heap, pipeline |-> pipeline]

\* reset(): this.pipeline = [].  The builder is bound to a newly created
\* empty array; the array it held before stays in the heap as it is.
ResetEffect(b) ==
  [heap |-> heap @@ (Fresh(heap) :> <<>>),
   pipeline |-> [pipeline EXCEPT ![b] = Fresh(heap)]]

\* An array can still be created within the bound.
CanCreate == Fresh(heap) \in ArrayIds

reset(b) ==
  /\ CanCreate
  /\ heap' = ResetEffect(b).heap
  /\ pipeline' = ResetEffect(b).pipeline
  /\ ret' = Return("reset", b, <<>>, "void", 0, "")
  /\ base' = [base EXCEPT ![b] = <<>>]
  /\ appended' = [appended EXCEPT ![b] = <<>>]
  /\ calls' = [calls EXCEPT ![b] = <<>>]
  /\ kept' = [kept EXCEPT ![b] = NoKept]
  /\ submitted' = [submitted EXCEPT ![b] = {}]
  /\ UNCHANGED <<collection, inflight, seeds, owned, lent>>

\* A slip: assemble(reset = false), the default turned around.
assembleDefaultKeeps(b, resetOpt) ==
  LET result == pipeline[b]
  IN  IF Default(resetOpt, FALSE)
      THEN /\ CanCreate
           /\ heap' = ResetEffect(b).heap
           /\ pipeline' = ResetEffect(b).pipeline
           /\ owned' = owned \cup {result}
           /\ ret' = Return("assemble", b, <<resetOpt>>, "array", result, "")
           /\ base' = [base EXCEPT ![b] = <<>>]
           /\ appended' = [appended EXCEPT ![b] = <<>>]
           /\ calls' = [calls EXCEPT ![b] = <<>>]
           /\ kept' = [kept EXCEPT ![b] = NoKept]
           /\ submitted' = [submitted EXCEPT ![b] = {}]
           /\ UNCHANGED <<collection, inflight, seeds, lent>>
      ELSE /\ ret' = Return("assemble", b, <<resetOpt>>, "array", result, "")
           /\ kept' = [kept EXCEPT ![b] =
                         IF @.valid THEN @
                         ELSE [valid |-> TRUE, P |-> heap[result], D |-> <<>>]]
           /\ lent' = lent \cup {result}
           /\ UNCHANGED <<heap, pipeline, collection, inflight, seeds, owned,
                          base, appended, calls, submitted>>

\* A slip: the reset flag ignored, this.reset() called every time.
assembleAlwaysResets(b, resetOpt) ==
  LET result == pipeline[b]
  IN  /\ CanCreate
      /\ heap' = ResetEffect(b).heap
      /\ pipeline' = ResetEffect(b).pipeline
      /\ ret' = Return("assemble", b, <<resetOpt>>, "array", result, "")
      /\ IF Default(resetOpt, TRUE)
         THEN /\ owned' = owned \cup {result}
              /\ lent' = lent
              /\ base' = [base EXCEPT ![b] = <<>>]
              /\ appended' = [appended EXCEPT ![b] = <<>>]
              /\ calls' = [calls EXCEPT ![b] = <<>>]
              /\ kept' = [kept EXCEPT ![b] = NoKept]
              /\ submitted' = [submitted EXCEPT ![b] = {}]
         ELSE /\ kept' = [kept EXCEPT ![b] =
                            IF @.valid THEN @
                            ELSE [valid |-> TRUE, P |-> heap[result], D |-> <<>>]]
              /\ lent' = lent \cup {result}
              /\ UNCHANGED <<owned, base, appended, calls, submitted>>
      /\ UNCHANGED <<collection, inflight, seeds>>

\* A slip: if (reset) this.reset(); return this.pipeline;  the pipeline read
\* after the reset, not before it.
assembleResetsFirst(b, resetOpt) ==
  LET result == pipeline[b]
  IN  IF Default(resetOpt, TRUE)
      THEN /\ CanCreate
           /\ heap' = ResetEffect(b).heap
           /\ pipeline' = ResetEffect(b).pipeline
           /\ owned' = owned \cup {Fresh(heap)}
           /\ ret' = Return("assemble", b, <<resetOpt>>, "array", Fresh(heap), "")
           /\ base' = [base EXCEPT ![b] = <<>>]
           /\ appended' = [appended EXCEPT ![b] = <<>>]
           /\ calls' = [calls EXCEPT ![b] = <<>>]
           /\ kept' = [kept EXCEPT ![b] = NoKept]
           /\ submitted' = [submitted EXCEPT ![b] = {}]
           /\ UNCHANGED <<collection, inflight, seeds, lent>>
      ELSE /\ ret' = Return("assemble", b, <<resetOpt>>, "array", result, "")
           /\ kept' = [kept EXCEPT ![b] =
                         IF @.valid THEN @
                         ELSE [valid |-> TRUE, P |-> heap[result], D |-> <<>>]]
           /\ lent' = lent \cup {result}
           /\ UNCHANGED <<heap, pipeline, collection, inflight, seeds, owned,
                          base, appended, calls, submitted>>

\* A slip: return [...pipeline], a copy handed over when the pipeline is kept.
assembleCopies(b, resetOpt) ==
  LET result == pipeline[b]
  IN  IF Default(resetOpt, TRUE)
      THEN /\ CanCreate
           /\ heap' = ResetEffect(b).heap
           /\ pipeline' = ResetEffect(b).pipeline
           /\ owned' = owned \cup {result}
           /\ ret' = Return("assemble", b, <<resetOpt>>, "array", result, "")
           /\ base' = [base EXCEPT ![b] = <<>>]
           /\ appended' = [appended EXCEPT ![b] = <<>>]
           /\ calls' = [calls EXCEPT ![b] = <<>>]
           /\ kept' = [kept EXCEPT ![b] = NoKept]
           /\ submitted' = [submitted EXCEPT ![b] = {}]
           /\ UNCHANGED <<collection, inflight, seeds, lent>>
      ELSE /\ CanCreate
           /\ heap' = heap @@ (Fresh(heap) :> heap[result])
           /\ ret' = Return("assemble", b, <<resetOpt>>, "array", Fresh(heap), "")
           /\ kept' = [kept EXCEPT ![b] =
                         IF @.valid THEN @
                         ELSE [valid |-> TRUE, P |-> heap[result], D |-> <<>>]]
           /\ lent' = lent \cup {Fresh(heap)}
           /\ UNCHANGED <<pipeline, collection, inflight, seeds, owned,
                          base, appended, calls, submitted>>

\* assemble(reset = true): const pipeline = this.pipeline;
\* if (reset) this.reset(); return pipeline;
assemble(b, resetOpt) ==
  LET result == pipeline[b]
  IN  IF Default(resetOpt, TRUE)
      THEN /\ CanCreate
           /\ heap' = ResetEffect(b).heap
           /\ pipeline' = ResetEffect(b).pipeline
           /\ owned' = owned \cup {result}
           /\ ret' = Return("assemble", b, <<resetOpt>>, "array", result, "")
           /\ base' = [base EXCEPT ![b] = <<>>]
           /\ appended' = [appended EXCEPT ![b] = <<>>]
           /\ calls' = [calls EXCEPT ![b] = <<>>]
           /\ kept' = [kept EXCEPT ![b] = NoKept]
           /\ submitted' = [submitted EXCEPT ![b] = {}]
           /\ UNCHANGED <<collection, inflight, seeds, lent>>
      ELSE /\ ret' = Return("assemble", b, <<resetOpt>>, "array", result, "")
           /\ kept' = [kept EXCEPT ![b] =
                         IF @.valid THEN @
                         ELSE [valid |-> TRUE, P |-> heap[result], D |-> <<>>]]
           /\ lent' = lent \cup {result}
           /\ UNCHANGED <<heap, pipeline, collection, inflight, seeds, owned,
                          base, appended, calls, submitted>>

\* A slip: the guard left out, the pipeline handed to whatever
\* this.collection is.
executeUnguarded(b) ==
  /\ Len(inflight) < MaxPending
  /\ inflight' = Append(inflight,
                        [self |-> b, to |-> collection[b],
                         arr |-> pipeline[b], snap |-> heap[pipeline[b]]])
  /\ ret' = Return("execute", b, <<>>, "pending", 0, "")
  /\ submitted' = [submitted EXCEPT ![b] =
                     @ \cup {[snap |-> heap[pipeline[b]],
                              at |-> Len(appended[b])]}]
  /\ UNCHANGED <<heap, pipeline, collection, seeds, owned, lent,
                 base, appended, calls, kept>>

\* A slip: aggregate(this.assemble()), which clears the pipeline it submits.
executeConsumes(b) ==
  IF collection[b] = NoCollection
  THEN /\ ret' = Return("execute", b, <<>>, "rejected", 0, NoCollectionError)
       /\ UNCHANGED <<heap, pipeline, collection, inflight, seeds, owned, lent,
                      base, appended, calls, kept, submitted>>
  ELSE /\ Len(inflight) < MaxPending
       /\ CanCreate
       /\ inflight' = Append(inflight,
                             [self |-> b, to |-> collection[b],
                              arr |-> pipeline[b], snap |-> heap[pipeline[b]]])
       /\ heap' = ResetEffect(b).heap
       /\ pipeline' = ResetEffect(b).pipeline
       /\ ret' = Return("execute", b, <<>>, "pending", 0, "")
       /\ submitted' = [submitted EXCEPT ![b] =
                          @ \cup {[snap |-> heap[pipeline[b]],
                                   at |-> Len(appended[b])]}]
       /\ UNCHANGED <<collection, seeds, owned, lent, base, appended, calls, kept>>

\* execute(): if (!this.collection) throw ...;
\* return this.collection.aggregate(this.pipeline).exec();
\* Without a collection the promise execute() returns is rejected at once.
\* With one, the array is handed to the executor (arr, and snap: what it
\* holds at that moment) and the promise stays pending until the executor
\* has answered.  The history notes what was submitted.
execute(b) ==
  IF collection[b] = NoCollection
  THEN /\ ret' = Return("execute", b, <<>>, "rejected", 0, NoCollectionError)
       /\ UNCHANGED <<heap, pipeline, collection, inflight, seeds, owned, lent,
                      base, appended, calls, kept, submitted>>
  ELSE /\ Len(inflight) < MaxPending
       /\ inflight' = Append(inflight,
                             [self |-> b, to |-> collection[b],
                              arr |-> pipeline[b], snap |-> heap[pipeline[b]]])
       /\ ret' = Return("execute", b, <<>>, "pending", 0, "")
       /\ submitted' = [submitted EXCEPT ![b] =
                          @ \cup {[snap |-> heap[pipeline[b]],
                                   at |-> Len(appended[b])]}]
       /\ UNCHANGED <<heap, pipeline, collection, seeds, owned, lent,
                      base, appended, calls, kept>>

\* The rest of a sequence once element i is taken out.
Without(q, i) == SubSeq(q, 1, i - 1) \o SubSeq(q, i + 1, Len(q))

\* A slip: the executor's failure caught and thrown again inside an error of
\* the builder's own.
settleWrapsFailure(i, outcome, val) ==
  /\ i \in DOMAIN inflight
  /\ inflight' = Without(inflight, i)
  /\ ret' = Return("execute", inflight[i].self, <<>>, outcome, 0,
                   IF outcome = "rejected" THEN "AggregationError: " \o val ELSE val)
  /\ UNCHANGED <<heap, pipeline, collection, seeds, owned, lent, base, appended, calls, kept, submitted>>

\* The executor answers request i with result documents ("resolved") or with
\* a failure of its own ("rejected").  execute() returned the executor's
\* promise from an async function, so its own promise settles the same way
\* and the awaiting caller gets that outcome.
settle(i, outcome, val) ==
  /\ i \in DOMAIN inflight
  /\ inflight' = Without(inflight, i)
  /\ ret' = Return("execute", inflight[i].self, <<>>, outcome, 0, val)
  /\ UNCHANGED <<heap, pipeline, collection, seeds, owned, lent, base, appended, calls, kept, submitted>>

-----------------------------------------------------------------------------
(* The builder's life: any call in any order.                              *)

\* Every mutator, with the arguments of the lifecycle.
Mutators ==
  \/ \E b \in Builders, m \in MatchArgs : match(b, m)
  \/ \E b \in Builders, g \in GroupArgs : group(b, g)
  \/ \E b \in Builders, s \in SortArgs : sort(b, s)
  \/ \E b \in Builders, n \in LimitArgs : limit(b, n)
  \/ \E b \in Builders, n \in SkipArgs : skip(b, n)
  \/ \E b \in Builders, p \in SetArgs : set(b, p)
  \/ \E b \in Builders, p \in UnsetArgs : unset(b, p)
  \/ \E b \in Builders, p \in ProjectArgs : project(b, p)
  \/ \E b \in Builders, c \in CountArgs : count(b, c)
  \/ \E b \in Builders, p \in FacetArgs : facet(b, p)
  \/ \E b \in Builders, c \in OutArgs : out(b, c)
  \/ \E b \in Builders, p \in MergeArgs : merge(b, p)
  \/ \E b \in Builders, u \in UnionWithArgs : unionWith(b, u[1], u[2])
  \/ \E b \in Builders, p \in LookupArgs : lookup(b, p)
  \/ \E b \in Builders, u \in UnwindArgs : unwind(b, u[1], u[2])
  \/ \E b \in Builders, f \in AddFieldsArgs : addFields(b, f)
  \/ \E b \in Builders, p \in CustomLookupArgs : customLookup(b, p)
  \/ \E b \in Builders, p \in CustomLookupArgs : customUnwindLookup(b, p)
  \/ \E b \in Builders, a \in PaginateArgs : paginate(b, a[1], a[2])
  \/ \E b \in Builders, s \in AddCustomArgs : addCustom(b, s)

\* reset, assemble, execute and the executor's answers.
Lifecycle ==
  \/ \E b \in Builders : reset(b)
  \/ \E b \in Builders, r \in {Omitted, Given(TRUE), Given(FALSE)} : assemble(b, r)
  \/ \E b \in Builders : execute(b)
  \/ \E i \in 1..MaxPending, r \in Results : settle(i, "resolved", r)
  \/ \E i \in 1..MaxPending, f \in Failures : settle(i, "rejected", f)

Next == Mutators \/ Lifecycle

Spec == Init /\ [][Next]_vars

-----------------------------------------------------------------------------
(* Parts of the builder's life, each small enough to explore in full.      *)

\* Building only: every mutator, and assemble(false) to look at the result.
Buildable == {b \in Builders : Len(appended[b]) < MaxBuild}

NextMutators ==
  \/ \E b \in Buildable, m \in MatchArgs : match(b, m)
  \/ \E b \in Buildable, g \in GroupArgs : group(b, g)
  \/ \E b \in Buildable, s \in SortArgs : sort(b, s)
  \/ \E b \in Buildable, n \in LimitArgs : limit(b, n)
  \/ \E b \in Buildable, n \in SkipArgs : skip(b, n)
  \/ \E b \in Buildable, p \in SetArgs : set(b, p)
  \/ \E b \in Buildable, p \in UnsetArgs : unset(b, p)
  \/ \E b \in Buildable, p \in ProjectArgs : project(b, p)
  \/ \E b \in Buildable, c \in CountArgs : count(b, c)
  \/ \E b \in Buildable, p \in FacetArgs : facet(b, p)
  \/ \E b \in Buildable, c \in OutArgs : out(b, c)
  \/ \E b \in Buildable, p \in MergeArgs : merge(b, p)
  \/ \E b \in Buildable, u \in UnionWithArgs : unionWith(b, u[1], u[2])
  \/ \E b \in Buildable, p \in LookupArgs : lookup(b, p)
  \/ \E b \in Buildable, u \in UnwindArgs : unwind(b, u[1], u[2])
  \/ \E b \in Buildable, f \in AddFieldsArgs : addFields(b, f)
  \/ \E b \in Buildable, p \in CustomLookupArgs : customLookup(b, p)
  \/ \E b \in Buildable, p \in CustomLookupArgs : customUnwindLookup(b, p)
  \/ \E b \in Buildable, a \in PaginateArgs : paginate(b, a[1], a[2])
  \/ \E b \in Buildable, s \in AddCustomArgs : addCustom(b, s)
  \/ \E b \in Builders : assemble(b, Given(FALSE))

SpecMutators == Init /\ [][NextMutators]_vars

\* The lifecycle: reset, assemble, execute and the executor's answers, with
\* one single-append and one dual-append mutator to fill the pipeline.
NextLifecycle ==
  \/ \E b \in Builders, m \in MatchArgs : match(b, m)
  \/ \E b \in Builders, a \in PaginateArgs : paginate(b, a[1], a[2])
  \/ Lifecycle

SpecLifecycle == Init /\ [][NextLifecycle]_vars

\* Every call of the lifecycle, with one mutator to fill the pipeline.
NextAccumulating ==
  \/ \E b \in Builders, m \in MatchArgs : match(b, m)
  \/ Lifecycle

SpecAccumulating == Init /\ [][NextAccumulating]_vars

\* The two halves of the lifecycle.  Building and handing over: the
\* mutators, reset and every form of assemble.
NextAssembling ==
  \/ \E b \in Builders, m \in MatchArgs : match(b, m)
  \/ \E b \in Builders, a \in PaginateArgs : paginate(b, a[1], a[2])
  \/ \E b \in Builders : reset(b)
  \/ \E b \in Builders, r \in {Omitted, Given(TRUE), Given(FALSE)} : assemble(b, r)

SpecAssembling == Init /\ [][NextAssembling]_vars

\* Building and executing: the mutators, execute and the executor's answers,
\* with reset and the clearing assemble to start a chain again.
NextExecuting ==
  \/ \E b \in Builders, m \in MatchArgs : match(b, m)
  \/ \E b \in Builders, a \in PaginateArgs : paginate(b, a[1], a[2])
  \/ \E b \in Builders : reset(b)
  \/ \E b \in Builders, r \in {Omitted, Given(TRUE)} : assemble(b, r)
  \/ \E b \in Builders : execute(b)
  \/ \E i \in 1..MaxPending, r \in Results : settle(i, "resolved", r)
  \/ \E i \in 1..MaxPending, f \in Failures : settle(i, "rejected", f)

SpecExecuting == Init /\ [][NextExecuting]_vars

\* Every call of the lifecycle around the dual-append customUnwindLookup:
\* the tasks that share one builder.
NextAtomic ==
  \/ \E b \in Builders, p \in CustomLookupArgs : customUnwindLookup(b, p)
  \/ Lifecycle

SpecAtomic == Init /\ [][NextAtomic]_vars

\* paginate alone, over a range of page sizes and page numbers.
PageSizes == {Omitted} \cup {Given(n) : n \in {0, 1, 2, 3, 5, 10}}
PageNumbers == {Omitted} \cup {Given(n) : n \in -2..4}

NextPaginate ==
  \E b \in Builders, l \in PageSizes, p \in PageNumbers : paginate(b, l, p)

SpecPaginate == Init /\ [][NextPaginate]_vars

\* The mutators that compute their payload from a parameter object, over the
\* shapes the parameter types allow: optional properties given or left out.
Restrict(params, keys) == [k \in keys |-> params[k]]

\* IMergeStageParams: into; on, whenMatched and whenNotMatched optional
MergeFull ==
  [into |-> [db |-> "sharded_db1", coll |-> "sharded_coll1"], on |-> "_id",
   whenMatched |-> "keepExisting", whenNotMatched |-> "discard"]
MergeCases ==
  {Restrict(MergeFull, {"into"} \cup opt) :
     opt \in SUBSET {"on", "whenMatched", "whenNotMatched"}}

\* ICustomLookupStageParams: localField a string or a { ref, alias } pair;
\* matchExpression and projection optional.  One object carries a property
\* the interface does not declare.
LocalFields == {[str |-> "bookingId"], [ref |-> "author.refId", alias |-> "authorId"]}
CustomLookupFull(lf) ==
  [collectionName |-> "authors", localField |-> lf, as |-> "author",
   matchExpression |-> ("$eq" :> <<"$_id", "$$authorId">>),
   projection |-> [_id |-> 0, name |-> 1, date |-> 1],
   preserveNullAndEmptyArrays |-> FALSE]
CustomLookupCases ==
  {Restrict(CustomLookupFull(lf), {"collectionName", "localField", "as"} \cup opt) :
     lf \in LocalFields, opt \in SUBSET {"matchExpression", "projection"}}
  \cup {CustomLookupFull([str |-> "bookingId"])}

\* unwind(path, preserveNullAndEmptyArrays = false)
UnwindCases == {<<"$author", o>> : o \in {Omitted, Given(TRUE), Given(FALSE)}}

NextPayloads ==
  \/ \E b \in Buildable, p \in MergeCases : merge(b, p)
  \/ \E b \in Buildable, p \in CustomLookupCases : customLookup(b, p)
  \/ \E b \in Buildable, p \in CustomLookupCases : customUnwindLookup(b, p)
  \/ \E b \in Buildable, a \in UnwindCases : unwind(b, a[1], a[2])

SpecPayloads == Init /\ [][NextPayloads]_vars

\* The two joins side by side: lookup over parameter objects whose four
\* properties all differ, customLookup over its cases.
LookupCases ==
  {[from |-> f, localField |-> l, foreignField |-> g, as |-> a] :
     f \in {"bookings", "authors"}, l \in {"bookingId", "authorId"},
     g \in {"_id", "code"}, a \in {"booking", "writer"}}

NextJoins ==
  \/ \E b \in Buildable, p \in LookupCases : lookup(b, p)
  \/ \E b \in Buildable, p \in CustomLookupCases : customLookup(b, p)

SpecJoins == Init /\ [][NextJoins]_vars

\* unwind alone: paths with and without the "$" prefix, the flag given or
\* omitted.
UnwindPaths == {"$author", "author", "$booking.items"}
UnwindFlags == {Omitted, Given(TRUE), Given(FALSE)}

NextUnwind ==
  \E b \in Buildable, path \in UnwindPaths, f \in UnwindFlags : unwind(b, path, f)

SpecUnwind == Init /\ [][NextUnwind]_vars

-----------------------------------------------------------------------------
(* The example subclass UserPipeliner.                                     *)

Filters == {[name |-> "John"]}
ListPages == 1..6
ListLimits == {1, 2, 3, 5, 10, 20}

\* listPaginated(filter, page, limit):
\*   return this.match(filter).paginate(page, limit).assemble();
\* paginate is declared paginate(limit, page), so it takes the helper's page
\* as its limit and the helper's limit as its page.  assemble() then returns
\* the array and binds the builder to a new one.
listPaginated(b, filter, page, lim) ==
  LET a == pipeline[b]
      matched == Push(heap, a, Stage("$match", filter))
      paginated == Push(Push(matched, a, PaginateSkip(Given(page), Given(lim))),
                        a, PaginateLimit(Given(page), Given(lim)))
  IN  /\ CanCreate
      /\ heap' = paginated @@ (Fresh(heap) :> <<>>)
      /\ pipeline' = [pipeline EXCEPT ![b] = Fresh(heap)]
      /\ owned' = owned \cup {a}
      /\ ret' = Return("listPaginated", b, <<filter, page, lim>>, "array", a, "")
      /\ base' = [base EXCEPT ![b] = <<>>]
      /\ appended' = [appended EXCEPT ![b] = <<>>]
      /\ calls' = [calls EXCEPT ![b] = <<>>]
      /\ kept' = [kept EXCEPT ![b] = NoKept]
      /\ submitted' = [submitted EXCEPT ![b] = {}]
      /\ UNCHANGED <<collection, inflight, seeds, lent>>

\* listCount(filter):
\*   return this.match(filter).count('total').assemble();
listCount(b, filter) ==
  LET a == pipeline[b]
      matched == Push(heap, a, Stage("$match", filter))
      counted == Push(matched, a, Stage("$count", "total"))
  IN  /\ CanCreate
      /\ heap' = counted @@ (Fresh(heap) :> <<>>)
      /\ pipeline' = [pipeline EXCEPT ![b] = Fresh(heap)]
      /\ owned' = owned \cup {a}
      /\ ret' = Return("listCount", b, <<filter>>, "array", a, "")
      /\ base' = [base EXCEPT ![b] = <<>>]
      /\ appended' = [appended EXCEPT ![b] = <<>>]
      /\ calls' = [calls EXCEPT ![b] = <<>>]
      /\ kept' = [kept EXCEPT ![b] = NoKept]
      /\ submitted' = [submitted EXCEPT ![b] = {}]
      /\ UNCHANGED <<collection, inflight, seeds, lent>>

NextListPaginated ==
  \/ \E b \in Builders, f \in Filters, page \in ListPages, lim \in ListLimits :
       listPaginated(b, f, page, lim)
  \/ \E b \in Builders, f \in Filters : listCount(b, f)

SpecListPaginated == Init /\ [][NextListPaginated]_vars

\* The same subclass with helpers that end in execute(): nothing clears the
\* pipeline, so a helper call goes on from what the calls before it left.
\* The mutators of the chain have pushed (the heap is h2) when execute()
\* looks for the collection; without one its promise is rejected, with one
\* the pipeline as it then is goes to the executor.
Executed(b, op, args, h2, stages, ops) ==
  /\ Len(heap[pipeline[b]]) + Len(stages) <= MaxSubmitted
  /\ heap' = h2
  /\ appended' = [appended EXCEPT ![b] = @ \o stages]
  /\ calls' = [calls EXCEPT ![b] = @ \o ops]
  /\ kept' = [kept EXCEPT ![b] = IF @.valid THEN [@ EXCEPT !.D = @ \o stages] ELSE @]
  /\ IF collection[b] = NoCollection
     THEN /\ ret' = Return(op, b, args, "rejected", 0, NoCollectionError)
          /\ inflight' = inflight
          /\ submitted' = submitted
     ELSE /\ Len(inflight) < MaxPending
          /\ inflight' = Append(inflight,
                                [self |-> b, to |-> collection[b],
                                 arr |-> pipeline[b], snap |-> h2[pipeline[b]]])
          /\ ret' = Return(op, b, args, "pending", 0, "")
          /\ submitted' = [submitted EXCEPT ![b] =
                             @ \cup {[snap |-> h2[pipeline[b]],
                                      at |-> Len(appended[b]) + Len(stages)]}]
  /\ UNCHANGED <<pipeline, collection, seeds, owned, lent, base>>

\* listPaginated(filter, page, limit):
\*   return this.match(filter).paginate(page, limit).execute();
listPaginatedExecuted(b, filter, page, lim) ==
  LET a == pipeline[b]
      stages == <<Stage("$match", filter),
                  PaginateSkip(Given(page), Given(lim)),
                  PaginateLimit(Given(page), Given(lim))>>
  IN  Executed(b, "listPaginated", <<filter, page, lim>>,
               Push(Push(Push(heap, a, stages[1]), a, stages[2]), a, stages[3]),
               stages, <<"match", "paginate">>)

\* listCount(filter):
\*   return this.match(filter).count('total').execute();
listCountExecuted(b, filter) ==
  LET a == pipeline[b]
      stages == <<Stage("$match", filter), Stage("$count", "total")>>
  IN  Executed(b, "listCount", <<filter>>,
               Push(Push(heap, a, stages[1]), a, stages[2]),
               stages, <<"match", "count">>)

NextListExecuted ==
  \/ \E b \in Builders, f \in Filters, page \in ListPages, lim \in ListLimits :
       listPaginatedExecuted(b, f, page, lim)
  \/ \E b \in Builders, f \in Filters : listCountExecuted(b, f)
  \/ \E i \in 1..MaxPending, r \in Results : settle(i, "resolved", r)
  \/ \E i \in 1..MaxPending, f \in Failures : settle(i, "rejected", f)

SpecListExecuted == Init /\ [][NextListExecuted]_vars

\* A second instance.  new AggregationPipelineBuilder(collection, pipeline):
\* this.pipeline = pipeline || [] binds the instance to the array it is
\* given, or to a new one when it is given none.
construct(b, coll, seedRef) ==
  /\ b \notin Builders
  /\ IF seedRef = Omitted
     THEN /\ CanCreate
          /\ heap' = heap @@ (Fresh(heap) :> <<>>)
          /\ pipeline' = pipeline @@ (b :> Fresh(heap))
          /\ seeds' = seeds
          /\ base' = base @@ (b :> <<>>)
     ELSE /\ heap' = heap
          /\ pipeline' = pipeline @@ (b :> seedRef[1])
          /\ seeds' = seeds \cup {seedRef[1]}
          /\ base' = base @@ (b :> heap[seedRef[1]])
  /\ collection' = collection @@ (b :> coll)
  /\ appended' = appended @@ (b :> <<>>)
  /\ calls' = calls @@ (b :> <<>>)
  /\ kept' = kept @@ (b :> NoKept)
  /\ submitted' = submitted @@ (b :> {})
  /\ ret' = Return("constructor", b, <<seedRef>>, "self", b, "")
  /\ UNCHANGED <<inflight, owned, lent>>

\* The arrays the caller holds a reference to: the ones it seeded a builder
\* with and the ones an assemble has returned so far, with the pipeline
\* cleared (owned) or kept (lent).
Held == seeds \cup owned \cup lent

\* Two instances, the second one seeded with any array the caller holds.
NextShared ==
  \/ \E b \in Buildable, m \in MatchArgs : match(b, m)
  \/ \E b \in Builders : assemble(b, Given(FALSE))
  \/ \E b \in Builders : reset(b)
  \/ \E coll \in Collections \cup {NoCollection} :
       \E seedRef \in {Omitted} \cup {Given(a) : a \in Held} :
         construct(2, coll, seedRef)

SpecShared == Init /\ [][NextShared]_vars

-----------------------------------------------------------------------------
(* A subclass whose methods are chains of base mutators (CustomBuilder of  *)
(* the test suite), next to a plain builder that is given the same calls   *)
(* one by one.  Instance 1 is the plain builder, instance 2 the subclass.  *)

Plain == 1
Custom == 2

\* The base mutator calls, in the order both instances make them.
HeritageCalls ==
  <<[op |-> "match", args |-> <<[is_verified |-> TRUE]>>],
    [op |-> "customUnwindLookup",
     args |-> <<[collectionName |-> "bookings", localField |-> [str |-> "bookingId"],
                 as |-> "bookings",
                 matchExpression |-> ("$eq" :> <<"$_id", "$$bookingId">>),
                 projection |-> [_id |-> 0, name |-> 1, date |-> 1]]>>],
    [op |-> "group", args |-> <<[_id |-> "gender", total |-> ("$sum" :> 1)]>>],
    [op |-> "set", args |-> <<[total |-> "$total"]>>],
    [op |-> "unset", args |-> <<"_id">>]>>

\* firstStep() makes the calls 1..3, secondStep() the calls 4..5; a method
\* is running when some but not all of its calls are made.
MethodEntry == {0, 3}
Done(b) == Len(calls[b]) = Len(HeritageCalls)
Running(b) == ~Done(b) /\ Len(calls[b]) \notin MethodEntry

\* The descriptors a base mutator call pushes.
StagesOf(c) ==
  CASE c.op = "match" -> <<Stage("$match", c.args[1])>>
    [] c.op = "group" -> <<Stage("$group", c.args[1])>>
    [] c.op = "set" -> <<Stage("$set", c.args[1])>>
    [] c.op = "unset" -> <<Stage("$unset", c.args[1])>>
    [] c.op = "customUnwindLookup" ->
         <<CustomLookupStage(c.args[1]), CustomUnwindStage(c.args[1])>>

RECURSIVE PushAll(_, _, _)
PushAll(h, a, stages) ==
  IF stages = <<>> THEN h
  ELSE PushAll(Push(h, a, Head(stages)), a, Tail(stages))

\* A slip: a mutator that returns a plain builder, not the instance it was
\* called on.
InvokeReturnsPlain(b, c) ==
  /\ heap' = PushAll(heap, pipeline[b], StagesOf(c))
  /\ ret' = Return(c.op, b, c.args, "self", Plain, "")
  /\ appended' = [appended EXCEPT ![b] = @ \o StagesOf(c)]
  /\ calls' = [calls EXCEPT ![b] = Append(@, c.op)]
  /\ kept' = [kept EXCEPT ![b] = IF @.valid THEN [@ EXCEPT !.D = @ \o StagesOf(c)] ELSE @]
  /\ UNCHANGED <<pipeline, collection, inflight, seeds, owned, lent, base, submitted>>

\* The base mutator call c on instance b: this.pipeline.push(...) for each
\* descriptor, return this.
Invoke(b, c) ==
  /\ heap' = PushAll(heap, pipeline[b], StagesOf(c))
  /\ ret' = Return(c.op, b, c.args, "self", b, "")
  /\ appended' = [appended EXCEPT ![b] = @ \o StagesOf(c)]
  /\ calls' = [calls EXCEPT ![b] = Append(@, c.op)]
  /\ kept' = [kept EXCEPT ![b] = IF @.valid THEN [@ EXCEPT !.D = @ \o StagesOf(c)] ELSE @]
  /\ UNCHANGED <<pipeline, collection, inflight, seeds, owned, lent, base, submitted>>

\* The plain builder is given its next call.  A method of the subclass runs
\* to its end first: nothing suspends it.
direct ==
  /\ ~Running(Custom)
  /\ ~Done(Plain)
  /\ Invoke(Plain, HeritageCalls[Len(calls[Plain]) + 1])

\* firstStep() or secondStep() is entered: its first call is made on this.
enter ==
  /\ ~Done(Custom)
  /\ Len(calls[Custom]) \in MethodEntry
  /\ Invoke(Custom, HeritageCalls[Len(calls[Custom]) + 1])

\* Inside a method: the next call of the chain is made on what the call
\* before it returned.
chained ==
  /\ Running(Custom)
  /\ ret.kind = "self"
  /\ ret.ref \in Builders
  /\ Invoke(ret.ref, HeritageCalls[Len(calls[Custom]) + 1])

\* .assemble() at the end of a chain.
finish(b) ==
  /\ Done(b)
  /\ ~Running(Custom)
  /\ assemble(b, Omitted)

InitHeritage ==
  /\ heap = <<<<>>, <<>>>>
  /\ pipeline = <<1, 2>>
  /\ \E c1 \in Collections \cup {NoCollection}, c2 \in Collections :
       collection = <<c1, c2>>
  /\ seeds = {}
  /\ base = <<<<>>, <<>>>>
  /\ appended = <<<<>>, <<>>>>
  /\ calls = <<<<>>, <<>>>>
  /\ kept = <<NoKept, NoKept>>
  /\ submitted = <<{}, {}>>
  /\ inflight = <<>>
  /\ owned = {}
  /\ lent = {}
  /\ ret = [op |-> "constructor", self |-> Custom, args |-> <<>>, kind |-> "self",
            ref |-> Custom, val |-> "", prev |-> "-"]

NextHeritage ==
  \/ direct
  \/ enter
  \/ chained
  \/ \E b \in Builders : finish(b)

SpecHeritage == InitHeritage /\ [][NextHeritage]_vars

-----------------------------------------------------------------------------
(* What the properties below are stated with.                              *)

\* What the pipeline of b holds according to the calls made: the seed as
\* long as nothing cleared it, then the descriptors appended in call order.
Expected(b) == base[b] \o appended[b]

\* The descriptors one call of a mutator appends.
Appends(op) == IF op \in {"paginate", "customUnwindLookup"} THEN 2 ELSE 1

RECURSIVE TotalAppends(_)
TotalAppends(ops) ==
  IF ops = <<>> THEN 0 ELSE Appends(Head(ops)) + TotalAppends(Tail(ops))

\* The stage kind each single-stage mutator emits.
SingleStageKind ==
  [match |-> "$match", group |-> "$group", sort |-> "$sort", limit |-> "$limit",
   skip |-> "$skip", set |-> "$set", unset |-> "$unset", project |-> "$project",
   count |-> "$count", facet |-> "$facet", out |-> "$out", merge |-> "$merge",
   unionWith |-> "$unionWith", lookup |-> "$lookup", unwind |-> "$unwind",
   addFields |-> "$addFields", customLookup |-> "$lookup"]

\* The single-stage mutators whose payload is the argument itself.
PassThrough ==
  {"match", "group", "sort", "limit", "skip", "set", "unset", "project",
   "count", "facet", "out", "addFields"}

SingleStageOps == DOMAIN SingleStageKind \cup {"addCustom"}

Last(q) == q[Len(q)]
Front(q) == SubSeq(q, 1, Len(q) - 1)

\* The last call was assemble with reset = true or with no argument.
AssembledClearing(r) == r.op = "assemble" /\ r.args \in {<<Omitted>>, <<Given(TRUE)>>}
\* The last call was assemble(false).
AssembledKeeping(r) == r.op = "assemble" /\ r.args = <<Given(FALSE)>>

-----------------------------------------------------------------------------
(* C1.  On a builder constructed without a seed, assemble(false) returns   *)
(* as many descriptors as the mutator calls appended (paginate and         *)
(* customUnwindLookup count two, every other mutator one), and its i-th    *)
(* descriptor is the i-th one appended, in call order.                     *)
C1_AssembleFalseReturnsAppendedInCallOrder ==
  \A b \in Builders :
    (AssembledKeeping(ret) /\ ret.self = b /\ pipeline[b] \notin seeds) =>
      /\ ret.kind = "array"
      /\ Len(heap[ret.ref]) = TotalAppends(calls[b])
      /\ Len(heap[ret.ref]) = Len(appended[b])
      /\ \A i \in 1..Len(appended[b]) : heap[ret.ref][i] = appended[b][i]

\* assemble(false) after match and customUnwindLookup: three descriptors.
C1_Witness ==
  /\ AssembledKeeping(ret)
  /\ pipeline[ret.self] \notin seeds
  /\ calls[ret.self] = <<"match", "customUnwindLookup">>
  /\ Len(heap[ret.ref]) = 3

-----------------------------------------------------------------------------
(* C2.  assemble() with reset = true or with no argument returns the       *)
(* sequence accumulated so far and leaves the builder with an empty        *)
(* pipeline; an assemble() called right after it returns an empty          *)
(* sequence.                                                               *)
C2_AssembleClearingStep ==
  \A b \in Builders :
    (AssembledClearing(ret') /\ ret'.self = b) =>
      /\ ret'.kind = "array"
      /\ heap'[ret'.ref] = heap[pipeline[b]]
      /\ heap'[pipeline'[b]] = <<>>

C2_AssembleAfterClearingIsEmpty ==
  (ret.op = "assemble" /\ ret.prev = "assemble(true)") => heap[ret.ref] = <<>>

C2_AssembleReturnsAndClears ==
  [][C2_AssembleClearingStep]_vars /\ []C2_AssembleAfterClearingIsEmpty

\* Two assembles in a row, the first of which returned two descriptors or more.
C2_Witness ==
  /\ ret.op = "assemble"
  /\ ret.prev = "assemble(true)"
  /\ ret.ref > 1
  /\ Len(heap[ret.ref - 1]) >= 2
  /\ ret.ref - 1 \in owned

-----------------------------------------------------------------------------
(* C3.  reset() returns no value, and an assemble() called right after a   *)
(* reset() returns an empty sequence, whatever the pipeline held before    *)
(* (a non-empty seed included).                                            *)
C3_ResetThenAssembleIsEmpty ==
  /\ ret.op = "reset" => (ret.kind = "void" /\ heap[pipeline[ret.self]] = <<>>)
  /\ (ret.op = "assemble" /\ ret.prev = "reset") => heap[ret.ref] = <<>>

\* reset() on a builder that still held its non-empty seed, then assemble().
C3_Witness ==
  /\ ret.op = "assemble"
  /\ ret.prev = "reset"
  /\ ret.ref = 2
  /\ 1 \in seeds
  /\ heap[1] # <<>>

-----------------------------------------------------------------------------
(* C4.  On a builder constructed without an executor, execute() fails with *)
(* the 'No collection defined' error, hands nothing to any executor and    *)
(* leaves the pipeline as it was.                                          *)
C4_ExecuteWithoutCollectionStep ==
  \A b \in Builders :
    (ret'.op = "execute" /\ ret'.self = b /\ collection[b] = NoCollection) =>
      /\ ret'.kind = "rejected"
      /\ ret'.val = NoCollectionError
      /\ inflight' = inflight
      /\ pipeline' = pipeline
      /\ heap' = heap

C4_NoRequestWithoutCollection ==
  \A b \in Builders :
    collection[b] = NoCollection =>
      /\ \A i \in DOMAIN inflight : inflight[i].self # b
      /\ (ret.op = "execute" /\ ret.self = b) => heap[pipeline[b]] = Expected(b)

C4_ExecuteWithoutCollectionFails ==
  [][C4_ExecuteWithoutCollectionStep]_vars /\ []C4_NoRequestWithoutCollection

\* execute() rejected on a builder that holds two descriptors or more.
C4_Witness ==
  /\ ret.op = "execute"
  /\ ret.kind = "rejected"
  /\ ret.val = NoCollectionError
  /\ collection[ret.self] = NoCollection
  /\ Len(heap[pipeline[ret.self]]) >= 2

-----------------------------------------------------------------------------
(* C5.  On a builder with an executor, execute() hands the executor the    *)
(* pipeline accumulated at the moment of the call, returns what the        *)
(* executor answers, and leaves the pipeline as it was.                    *)
C5_ExecuteStep ==
  \A b \in Builders :
    (ret'.op = "execute" /\ ret'.kind = "pending" /\ ret'.self = b) =>
      /\ collection[b] # NoCollection
      /\ Len(inflight') = Len(inflight) + 1
      /\ Front(inflight') = inflight
      /\ Last(inflight').to = collection[b]
      /\ Last(inflight').arr = pipeline[b]
      /\ Last(inflight').snap = Expected(b)
      /\ pipeline' = pipeline
      /\ heap' = heap

C5_SettleStep ==
  (ret'.op = "execute" /\ ret'.kind \in {"resolved", "rejected"}
   /\ collection[ret'.self] # NoCollection) =>
      /\ Len(inflight') = Len(inflight) - 1
      /\ (ret'.kind = "resolved" => ret'.val \in Results)
      /\ pipeline' = pipeline
      /\ heap' = heap

C5_PipelineAsAccumulated ==
  \A b \in Builders :
    (ret.op = "execute" /\ ret.self = b) => heap[pipeline[b]] = Expected(b)

C5_ExecuteSubmitsAndKeeps ==
  /\ [][C5_ExecuteStep /\ C5_SettleStep]_vars
  /\ []C5_PipelineAsAccumulated

\* The executor's documents returned by execute() on a builder that holds two
\* descriptors or more, and still holds them.
C5_Witness ==
  /\ ret.op = "execute"
  /\ ret.kind = "resolved"
  /\ ret.val \in Results
  /\ Len(heap[pipeline[ret.self]]) >= 2
  /\ Len(appended[ret.self]) >= 2

-----------------------------------------------------------------------------
(* C6.  assemble(false) leaves the pipeline intact: when assemble(false)   *)
(* returned P and mutators then appended D1..Dn, a further assemble(false) *)
(* returns P followed by D1..Dn.                                           *)
C6_AssembleKeepingStep ==
  AssembledKeeping(ret') => (pipeline' = pipeline /\ heap' = heap)

C6_FurtherAssembleReturnsAll ==
  \A b \in Builders :
    (AssembledKeeping(ret) /\ ret.self = b /\ kept[b].valid) =>
      heap[ret.ref] = kept[b].P \o kept[b].D

C6_AssembleFalseKeepsPipeline ==
  [][C6_AssembleKeepingStep]_vars /\ []C6_FurtherAssembleReturnsAll

\* assemble(false) returned one descriptor, paginate appended two, and
\* assemble(false) was called again.
C6_Witness ==
  /\ AssembledKeeping(ret)
  /\ kept[ret.self].valid
  /\ Len(kept[ret.self].P) >= 1
  /\ Len(kept[ret.self].D) >= 2

-----------------------------------------------------------------------------
(* C7.  A sequence returned by assemble(true) is the caller's: no later    *)
(* call on the builder changes its length or its contents.                 *)
C7_ReturnedSequenceIsNotTouched ==
  [][\A a \in owned : a \in DOMAIN heap' /\ heap'[a] = heap[a]]_vars

\* A mutator has run after assemble(true) returned a non-empty sequence.
C7_Witness ==
  /\ ret.kind = "self"
  /\ ret.op # "constructor"
  /\ \E a \in owned : heap[a] # <<>>
  /\ heap[pipeline[ret.self]] # <<>>

-----------------------------------------------------------------------------
(* C8.  When one builder is used for several chains that each end with     *)
(* assemble() (reset by default), every chain's result holds the           *)
(* descriptors that chain appended and none of an earlier chain.           *)
C8_ChainsDoNotLeak ==
  [][\A b \in Builders :
       (AssembledClearing(ret') /\ ret'.self = b) =>
          heap'[ret'.ref] = Expected(b)]_vars

\* The second chain ended: its result and the first chain's are both
\* non-empty and differ.
C8_Witness ==
  /\ AssembledClearing(ret)
  /\ ret.ref > 1
  /\ ret.ref \in owned
  /\ ret.ref - 1 \in owned
  /\ heap[ret.ref] # <<>>
  /\ heap[ret.ref - 1] # <<>>
  /\ heap[ret.ref] # heap[ret.ref - 1]

-----------------------------------------------------------------------------
(* C9.  Every single-stage mutator (match, group, sort, limit, skip, set,  *)
(* unset, project, count, facet, out, merge, unionWith, lookup, unwind,    *)
(* addFields, customLookup, addCustom) appends exactly one descriptor at   *)
(* the tail, leaves the descriptors already there and the executor alone,  *)
(* and returns the builder it was called on.                               *)
C9_SingleStageStep ==
  \A b \in Builders :
    (ret'.op \in SingleStageOps /\ ret'.self = b) =>
      LET a == pipeline[b]
          old == heap[a]
          new == heap'[a]
      IN  /\ pipeline' = pipeline
          /\ collection' = collection
          /\ inflight' = inflight
          /\ DOMAIN heap' = DOMAIN heap
          /\ \A o \in DOMAIN heap \ {a} : heap'[o] = heap[o]
          /\ Len(new) = Len(old) + 1
          /\ Front(new) = old
          /\ ret'.op = "addCustom" => Last(new) = ret'.args[1]
          /\ ret'.op # "addCustom" => KindOf(Last(new)) = SingleStageKind[ret'.op]
          /\ ret'.op \in PassThrough =>
               Last(new) = Stage(SingleStageKind[ret'.op], ret'.args[1])
          /\ ret'.kind = "self"
          /\ ret'.ref = b

C9_SingleStageMutatorsAppendOne == [][C9_SingleStageStep]_vars

\* A single-stage mutator was called on a pipeline that already held a
\* descriptor, and the builder came back.
C9_Witness ==
  /\ ret.op = "customLookup"
  /\ ret.kind = "self"
  /\ Len(heap[pipeline[ret.self]]) = 2
  /\ KindOf(heap[pipeline[ret.self]][1]) # "$lookup"
  /\ KindOf(heap[pipeline[ret.self]][2]) = "$lookup"

-----------------------------------------------------------------------------
(* C10.  paginate(size, page) appends exactly two descriptors: $skip with  *)
(* size * (page - 1), then $limit with size.  With the arguments omitted   *)
(* size is 10 and page is 1: paginate() appends $skip 0, then $limit 10.   *)
C10_PaginateStep ==
  \A b \in Builders :
    (ret'.op = "paginate" /\ ret'.self = b) =>
      LET size == IF ret'.args[1] = Omitted THEN 10 ELSE ret'.args[1][1]
          page == IF ret'.args[2] = Omitted THEN 1 ELSE ret'.args[2][1]
          a == pipeline[b]
      IN  /\ pipeline' = pipeline
          /\ heap'[a] = heap[a] \o <<"$skip" :> (size * (page - 1)),
                                     "$limit" :> size>>
          /\ ret'.args = <<Omitted, Omitted>> =>
               heap'[a] = heap[a] \o <<"$skip" :> 0, "$limit" :> 10>>

C10_PaginateAppendsSkipThenLimit == [][C10_PaginateStep]_vars

\* paginate(10, 2) was called on a pipeline that held one descriptor: $skip 10
\* and $limit 10 follow it.
C10_Witness ==
  /\ ret.op = "paginate"
  /\ ret.args = <<Given(10), Given(2)>>
  /\ Len(heap[pipeline[ret.self]]) = 3
  /\ heap[pipeline[ret.self]][2] = "$skip" :> 10
  /\ heap[pipeline[ret.self]][3] = "$limit" :> 10

-----------------------------------------------------------------------------
(* C11.  The $lookup descriptor customLookup appends binds exactly one     *)
(* variable in its let map: for a localField given as a string f, f bound  *)
(* to "$" + f; for a { ref, alias } pair, alias bound to "$" + ref.        *)
C11_CustomLookupLetBinding ==
  \A b \in Builders :
    (ret.op = "customLookup" /\ ret.self = b) =>
      LET lf == ret.args[1].localField
          bound == Last(heap[pipeline[b]])["$lookup"].let
      IN  /\ Cardinality(DOMAIN bound) = 1
          /\ IsString(lf) =>
               /\ DOMAIN bound = {lf.str}
               /\ bound[lf.str] = "$" \o lf.str
          /\ ~IsString(lf) =>
               /\ DOMAIN bound = {lf.alias}
               /\ bound[lf.alias] = "$" \o lf.ref
          /\ lf = [str |-> "bookingId"] => bound = [bookingId |-> "$bookingId"]
          /\ lf = [ref |-> "author.refId", alias |-> "authorId"] =>
               bound = [authorId |-> "$author.refId"]

\* customLookup was called with a { ref, alias } pair whose two names differ.
C11_Witness ==
  /\ ret.op = "customLookup"
  /\ ~IsString(ret.args[1].localField)
  /\ ret.args[1].localField.ref # ret.args[1].localField.alias
  /\ KindOf(Last(heap[pipeline[ret.self]])) = "$lookup"

-----------------------------------------------------------------------------
(* C12.  The sub-pipeline customLookup embeds holds at most two entries:   *)
(* { $match: { $expr: matchExpression } } if and only if a matchExpression *)
(* was given, { $project: projection } if and only if a projection was     *)
(* given, the filter before the projection when both are there.            *)
C12_CustomLookupSubPipeline ==
  \A b \in Builders :
    (ret.op = "customLookup" /\ ret.self = b) =>
      LET p == ret.args[1]
          sub == Last(heap[pipeline[b]])["$lookup"].pipeline
          hasMatch == "matchExpression" \in DOMAIN p
          hasProject == "projection" \in DOMAIN p
          filters == {i \in DOMAIN sub : KindOf(sub[i]) = "$match"}
          projects == {i \in DOMAIN sub : KindOf(sub[i]) = "$project"}
      IN  /\ Len(sub) = (IF hasMatch THEN 1 ELSE 0) + (IF hasProject THEN 1 ELSE 0)
          /\ filters \cup projects = DOMAIN sub
          /\ hasMatch <=> filters # {}
          /\ hasProject <=> projects # {}
          /\ \A i \in filters : sub[i] = ("$match" :> ("$expr" :> p.matchExpression))
          /\ \A i \in projects : sub[i] = ("$project" :> p.projection)
          /\ \A i \in filters, j \in projects : i < j

\* customLookup was called with both a matchExpression and a projection.
C12_Witness ==
  /\ ret.op = "customLookup"
  /\ {"matchExpression", "projection"} \subseteq DOMAIN ret.args[1]
  /\ Len(Last(heap[pipeline[ret.self]])["$lookup"].pipeline) = 2

-----------------------------------------------------------------------------
(* C13.  customUnwindLookup(params) appends exactly two descriptors: the   *)
(* $lookup descriptor customLookup(params) appends, then $unwind on        *)
(* "$" + params.as with preserveNullAndEmptyArrays true, whatever the      *)
(* caller passed.  The pipeline is the one customLookup(params) followed   *)
(* by unwind("$" + params.as, true) builds.                                *)
C13_CustomUnwindLookupStep ==
  \A b \in Builders :
    (ret'.op = "customUnwindLookup" /\ ret'.self = b) =>
      LET p == ret'.args[1]
          a == pipeline[b]
          n == Len(heap[a])
          afterLookup == CustomLookupPush(heap, b, p)
      IN  /\ pipeline' = pipeline
          /\ Len(heap'[a]) = n + 2
          /\ SubSeq(heap'[a], 1, n) = heap[a]
          /\ heap'[a][n + 1] = Last(afterLookup[a])
          /\ heap'[a][n + 2] =
               ("$unwind" :> [path |-> "$" \o p.as,
                              preserveNullAndEmptyArrays |-> TRUE])
          /\ heap' = Push(afterLookup, a, UnwindStage("$" \o p.as, Given(TRUE)))

C13_CustomUnwindLookupIsLookupThenUnwind == [][C13_CustomUnwindLookupStep]_vars

\* customUnwindLookup was called with an object that carries
\* preserveNullAndEmptyArrays: false, and the $unwind it appended preserves.
C13_Witness ==
  /\ ret.op = "customUnwindLookup"
  /\ "preserveNullAndEmptyArrays" \in DOMAIN ret.args[1]
  /\ ~ret.args[1].preserveNullAndEmptyArrays
  /\ Last(heap[pipeline[ret.self]])["$unwind"].preserveNullAndEmptyArrays
  /\ Last(heap[pipeline[ret.self]])["$unwind"].path = "$author"

-----------------------------------------------------------------------------
(* C14.  merge(params) appends one $merge descriptor whose payload has     *)
(* the four keys into, on, whenMatched, whenNotMatched: into and on as     *)
(* passed, whenMatched the given value or "merge", whenNotMatched the      *)
(* given value or "insert".                                                *)
C14_MergePayloadHasDefaults ==
  \A b \in Builders :
    (ret.op = "merge" /\ ret.self = b) =>
      LET p == ret.args[1]
          last == Last(heap[pipeline[b]])
          payload == last["$merge"]
      IN  /\ DOMAIN last = {"$merge"}
          /\ DOMAIN payload = {"into", "on", "whenMatched", "whenNotMatched"}
          /\ payload.into = p.into
          /\ payload.on = (IF "on" \in DOMAIN p THEN p.on ELSE Undefined)
          /\ payload.whenMatched =
               (IF "whenMatched" \in DOMAIN p THEN p.whenMatched ELSE "merge")
          /\ payload.whenNotMatched =
               (IF "whenNotMatched" \in DOMAIN p THEN p.whenNotMatched ELSE "insert")

\* merge was called with into alone: both defaults were substituted.
C14_Witness ==
  /\ ret.op = "merge"
  /\ DOMAIN ret.args[1] = {"into"}
  /\ Last(heap[pipeline[ret.self]])["$merge"].whenMatched = "merge"
  /\ Last(heap[pipeline[ret.self]])["$merge"].whenNotMatched = "insert"

-----------------------------------------------------------------------------
(* C15.  A builder constructed with a sequence S starts with S as its      *)
(* pipeline: assemble(false) right after construction returns S, and       *)
(* later appends follow the descriptors of S.  A builder constructed       *)
(* without one starts empty.                                               *)
C15_SeedIsTheInitialPipeline ==
  \A b \in Builders :
    /\ (ret.op = "constructor" /\ pipeline[b] \notin seeds) => heap[pipeline[b]] = <<>>
    /\ (ret.op = "constructor" /\ pipeline[b] \in seeds) =>
         (heap[pipeline[b]] = base[b] /\ base[b] \in SeedPipelines)
    /\ (AssembledKeeping(ret) /\ ret.self = b) =>
         /\ calls[b] = <<>> => heap[ret.ref] = base[b]
         /\ Len(heap[ret.ref]) = Len(base[b]) + TotalAppends(calls[b])
         /\ SubSeq(heap[ret.ref], 1, Len(base[b])) = base[b]
         /\ SubSeq(heap[ret.ref], Len(base[b]) + 1, Len(heap[ret.ref])) = appended[b]

\* assemble(false) on a builder seeded with one descriptor, after a mutator
\* appended two more.
C15_Witness ==
  /\ AssembledKeeping(ret)
  /\ pipeline[ret.self] \in seeds
  /\ Len(base[ret.self]) = 1
  /\ Len(appended[ret.self]) = 2
  /\ Len(heap[ret.ref]) = 3

-----------------------------------------------------------------------------
(* C16, as the specification states it.  After a builder was constructed   *)
(* from a caller-supplied seed sequence, no mutator call changes the       *)
(* length or the contents of that seed sequence.                           *)
C16_SeedNeverChanged ==
  [][\A a \in seeds :
       (ret'.kind = "self" /\ ret'.op # "constructor") => heap'[a] = heap[a]]_vars

(* C16, amended.  The builder takes the caller's seed sequence as its      *)
(* pipeline without copying it.  While a builder is bound to it (until     *)
(* reset), each mutator call on that builder appends its descriptors at    *)
(* the tail of the seed sequence and leaves the descriptors already there  *)
(* in place; no other call changes the seed sequence.                      *)
C16_SeedStep ==
  \A a \in seeds :
    LET n == Len(heap[a])
        b == ret'.self
        appends == /\ ret'.kind = "self"
                   /\ ret'.op # "constructor"
                   /\ pipeline[b] = a
    IN  /\ appends =>
             /\ Len(heap'[a]) = n + Appends(ret'.op)
             /\ SubSeq(heap'[a], 1, n) = heap[a]
             /\ SubSeq(heap'[a], n + 1, Len(heap'[a])) =
                  SubSeq(appended'[b], Len(appended[b]) + 1, Len(appended'[b]))
        /\ ~appends => heap'[a] = heap[a]

C16_SeedSharedUntilReset == [][C16_SeedStep]_vars

\* A mutator call has appended to the caller's seed sequence, the builder
\* was reset, and a later mutator call has left the seed sequence alone.
C16_Witness ==
  /\ 1 \in seeds
  /\ Len(heap[1]) = 2
  /\ pipeline[1] # 1
  /\ heap[pipeline[1]] # <<>>
  /\ ret.kind = "self"
  /\ ret.op = "match"

-----------------------------------------------------------------------------
(* C17, as the specification states it.  A sequence returned by            *)
(* assemble(false) is not changed by the mutator calls made on the builder *)
(* afterwards: as long as the builder has not been reset, the sequence     *)
(* (which kept[b] remembers as P) holds what it held when it was returned. *)
C17_ReturnedSequenceKeepsItsContents ==
  \A b \in Builders : kept[b].valid => heap[pipeline[b]] = kept[b].P

(* C17, amended.  A sequence returned by assemble(false) is the builder's  *)
(* pipeline itself, not a copy: the mutator calls made afterwards append   *)
(* their descriptors to it and leave the descriptors it held in place,     *)
(* until reset rebinds the builder; a sequence no builder is bound to is   *)
(* not changed by any call.                                                *)
C17_ReturnedIsThePipeline ==
  \A b \in Builders :
    /\ (AssembledKeeping(ret) /\ ret.self = b) => ret.ref = pipeline[b]
    /\ kept[b].valid => heap[pipeline[b]] = kept[b].P \o kept[b].D

C17_UnboundStep ==
  \A a \in DOMAIN heap :
    (\A b \in Builders : pipeline[b] # a) => heap'[a] = heap[a]

C17_AssembleFalseSharesThePipeline ==
  []C17_ReturnedIsThePipeline /\ [][C17_UnboundStep]_vars

\* assemble(false) returned a sequence of one descriptor or more, and a
\* mutator call has since made it longer.
C17_Witness ==
  /\ ret.kind = "self"
  /\ ret.op # "constructor"
  /\ kept[ret.self].valid
  /\ Len(kept[ret.self].P) >= 1
  /\ Len(kept[ret.self].D) >= 1
  /\ Len(heap[pipeline[ret.self]]) = Len(kept[ret.self].P) + Len(kept[ret.self].D)

-----------------------------------------------------------------------------
(* C18, as the specification states it.  No mutable state is shared        *)
(* across instances: no operation on one instance changes the pipeline     *)
(* another instance assembles or executes.                                 *)
C18_NoSharedState ==
  [][\A b1 \in Builders, b2 \in Builders :
       (b1 # b2 /\ ret'.self = b1 /\ ret'.op # "constructor") =>
          heap'[pipeline'[b2]] = heap[pipeline[b2]]]_vars

(* C18, amended.  Instances share mutable state only through a sequence    *)
(* both are bound to, which happens only by seeding: two instances seeded  *)
(* with the same sequence, or one seeded with the other's assemble(false)  *)
(* result.  Then a mutator call on one appends to the pipeline of the      *)
(* other, until one of them is reset.  In every other case no operation    *)
(* on one instance changes the pipeline of another.                        *)
C18_OtherInstanceStep ==
  \A b1 \in Builders, b2 \in Builders :
    (b1 # b2 /\ ret'.self = b1 /\ ret'.op # "constructor") =>
      LET a == pipeline[b2]
          n == Len(heap[a])
      IN  /\ pipeline'[b2] = a
          /\ IF pipeline[b1] = a /\ ret'.kind = "self"
             THEN /\ Len(heap'[a]) = n + Appends(ret'.op)
                  /\ SubSeq(heap'[a], 1, n) = heap[a]
                  /\ SubSeq(heap'[a], n + 1, Len(heap'[a])) =
                       SubSeq(appended'[b1], Len(appended[b1]) + 1,
                              Len(appended'[b1]))
             ELSE heap'[a] = heap[a]

C18_SharedOnlyBySeeding ==
  \A b1 \in Builders, b2 \in Builders :
    (b1 # b2 /\ pipeline[b1] = pipeline[b2]) => pipeline[b1] \in seeds

C18_SharingOnlyThroughSeeds ==
  [][C18_OtherInstanceStep]_vars /\ []C18_SharedOnlyBySeeding

\* Two instances that were bound to one sequence, to which the first has
\* appended while the second was bound to it (it holds more than the second
\* was seeded with and has appended itself): the first was then reset and
\* has appended to its new pipeline, the second still holds the old one.
C18_Witness ==
  /\ Builders = {1, 2}
  /\ pipeline[2] \in seeds
  /\ Len(heap[pipeline[2]]) > Len(base[2]) + Len(appended[2])
  /\ pipeline[1] # pipeline[2]
  /\ heap[pipeline[2]] # <<>>
  /\ heap[pipeline[1]] # <<>>
  /\ heap[pipeline[1]] # heap[pipeline[2]]
  /\ ret.op = "match"
  /\ ret.self = 1

-----------------------------------------------------------------------------
(* C19.  When the executor fails, execute() gives the caller that very     *)
(* failure, not wrapped; the executor was invoked once for that execute()  *)
(* (the request is gone and none was submitted again); the pipeline is     *)
(* unchanged.                                                              *)
C19_SubmitStep ==
  (ret'.op = "execute" /\ ret'.kind = "pending") =>
    /\ Len(inflight') = Len(inflight) + 1
    /\ Last(inflight').self = ret'.self

C19_FailureStep ==
  (ret'.op = "execute" /\ ret'.kind = "rejected"
   /\ collection[ret'.self] # NoCollection) =>
    /\ ret'.val \in Failures
    /\ ret'.val # NoCollectionError
    /\ \E i \in DOMAIN inflight :
         /\ inflight[i].self = ret'.self
         /\ inflight' = Without(inflight, i)
    /\ heap' = heap
    /\ pipeline' = pipeline

C19_ExecutorFailurePassesThrough == [][C19_SubmitStep /\ C19_FailureStep]_vars

\* execute() failed with the executor's failure on a builder that holds two
\* descriptors or more, and no request is left.
C19_Witness ==
  /\ ret.op = "execute"
  /\ ret.kind = "rejected"
  /\ ret.val = "MongoServerError"
  /\ collection[ret.self] # NoCollection
  /\ inflight = <<>>
  /\ Len(heap[pipeline[ret.self]]) >= 2

-----------------------------------------------------------------------------
(* C20.  The builder has the single state "accumulating": in every         *)
(* reachable state every mutator, assemble and reset can be called and     *)
(* completes (within the room the bounds of the model leave), and the only *)
(* error the builder raises itself is that of execute() without an         *)
(* executor.                                                               *)
C20_OnlyExecuteRaises ==
  /\ ret.op # "execute" => ret.kind \in {"self", "array", "void"}
  /\ ret.kind = "rejected" =>
       /\ ret.op = "execute"
       /\ IF collection[ret.self] = NoCollection
          THEN ret.val = NoCollectionError
          ELSE ret.val \in Failures

C20_MutatorsEnabled ==
  \A b \in Builders :
    Room(2) =>
      /\ \A m \in MatchArgs : ENABLED match(b, m)
      /\ \A g \in GroupArgs : ENABLED group(b, g)
      /\ \A s \in SortArgs : ENABLED sort(b, s)
      /\ \A n \in LimitArgs : ENABLED limit(b, n)
      /\ \A n \in SkipArgs : ENABLED skip(b, n)
      /\ \A p \in SetArgs : ENABLED set(b, p)
      /\ \A p \in UnsetArgs : ENABLED unset(b, p)
      /\ \A p \in ProjectArgs : ENABLED project(b, p)
      /\ \A c \in CountArgs : ENABLED count(b, c)
      /\ \A p \in FacetArgs : ENABLED facet(b, p)
      /\ \A c \in OutArgs : ENABLED out(b, c)
      /\ \A p \in MergeArgs : ENABLED merge(b, p)
      /\ \A u \in UnionWithArgs : ENABLED unionWith(b, u[1], u[2])
      /\ \A p \in LookupArgs : ENABLED lookup(b, p)
      /\ \A u \in UnwindArgs : ENABLED unwind(b, u[1], u[2])
      /\ \A f \in AddFieldsArgs : ENABLED addFields(b, f)
      /\ \A p \in CustomLookupArgs : ENABLED customLookup(b, p)
      /\ \A p \in CustomLookupArgs : ENABLED customUnwindLookup(b, p)
      /\ \A a \in PaginateArgs : ENABLED paginate(b, a[1], a[2])
      /\ \A s \in AddCustomArgs : ENABLED addCustom(b, s)

C20_LifecycleEnabled ==
  \A b \in Builders :
    /\ ENABLED assemble(b, Given(FALSE))
    /\ CanCreate =>
         /\ ENABLED reset(b)
         /\ ENABLED assemble(b, Omitted)
         /\ ENABLED assemble(b, Given(TRUE))
    /\ (collection[b] = NoCollection \/ Len(inflight) < MaxPending) =>
         ENABLED execute(b)

C20_SingleStateAccumulating ==
  C20_OnlyExecuteRaises /\ C20_MutatorsEnabled /\ C20_LifecycleEnabled

\* An execute() has failed with the executor's failure; the builder holds
\* descriptors and every operation can still be called.
C20_Witness ==
  /\ ret.op = "execute"
  /\ ret.kind = "rejected"
  /\ ret.val \in Failures
  /\ heap[pipeline[ret.self]] # <<>>
  /\ Room(2)
  /\ CanCreate

-----------------------------------------------------------------------------
(* C21.  Chaining survives subclassing: firstStep().secondStep().assemble() *)
(* on the subclass returns exactly the pipeline the same base mutators,    *)
(* called directly in the same order, build on a plain builder.            *)

\* The pipeline the test suite expects of both.
ExpectedPipeline ==
  <<"$match" :> [is_verified |-> TRUE],
    "$lookup" :> [from |-> "bookings",
                  let |-> [bookingId |-> "$bookingId"],
                  pipeline |-> <<"$match" :> ("$expr" :> ("$eq" :> <<"$_id", "$$bookingId">>)),
                                 "$project" :> [_id |-> 0, name |-> 1, date |-> 1]>>,
                  as |-> "bookings"],
    "$unwind" :> [path |-> "$bookings", preserveNullAndEmptyArrays |-> TRUE],
    "$group" :> [_id |-> "gender", total |-> ("$sum" :> 1)],
    "$set" :> [total |-> "$total"],
    "$unset" :> "_id">>

C21_SubclassChainEqualsDirectCalls ==
  /\ \A b \in Builders :
       /\ Len(heap[pipeline[b]]) = TotalAppends(calls[b])
       /\ heap[pipeline[b]] = SubSeq(ExpectedPipeline, 1, Len(heap[pipeline[b]]))
  /\ (Done(Plain) /\ Done(Custom)) =>
       (heap[pipeline[Custom]] = heap[pipeline[Plain]]
        /\ heap[pipeline[Plain]] = ExpectedPipeline)
  /\ ret.op = "assemble" => heap[ret.ref] = ExpectedPipeline

\* firstStep().secondStep().assemble() has returned on the subclass, and the
\* plain builder holds the result of the direct calls.
C21_Witness ==
  /\ ret.op = "assemble"
  /\ ret.self = Custom
  /\ Len(heap[ret.ref]) = 6
  /\ Done(Plain)
  /\ heap[pipeline[Plain]] = heap[ret.ref]

-----------------------------------------------------------------------------
(* C22.  The two descriptors of customUnwindLookup are appended together:  *)
(* whatever calls share one builder (mutators, assemble, reset, execute    *)
(* with requests waiting on the executor), no array of descriptors that an *)
(* assemble returned or that execute submitted holds a join descriptor     *)
(* without the deconstruct-array descriptor of its output field right      *)
(* after it.                                                               *)

\* Every $lookup of s is followed at once by the $unwind of its output field.
Paired(s) ==
  \A i \in 1..Len(s) :
    KindOf(s[i]) = "$lookup" =>
      /\ i < Len(s)
      /\ KindOf(s[i + 1]) = "$unwind"
      /\ s[i + 1]["$unwind"].path = "$" \o s[i]["$lookup"].as

HasLookup(s) == \E i \in 1..Len(s) : KindOf(s[i]) = "$lookup"

C22_DualAppendIsAtomic ==
  /\ \A a \in DOMAIN heap : Paired(heap[a])
  /\ \A i \in DOMAIN inflight : Paired(inflight[i].snap) /\ Paired(heap[inflight[i].arr])
  /\ ret.op = "assemble" => Paired(heap[ret.ref])

\* A request that carries a customUnwindLookup waits on the executor while
\* assemble returns the pipeline with the same pair.
C22_Witness ==
  /\ \E i \in DOMAIN inflight : HasLookup(inflight[i].snap)
  /\ ret.op = "assemble"
  /\ HasLookup(heap[ret.ref])

-----------------------------------------------------------------------------
(* C23.  paginate(limit, page) does not guard its page: a page of 0 or     *)
(* less goes into the product as it is.  As first stated: for every page   *)
(* <= 0 and every limit, the $skip value appended is below 0.  A limit of  *)
(* 0 makes the product 0, so the statement that holds is: for every page   *)
(* <= 0 and every limit above 0 (the default 10 included) the $skip value  *)
(* is below 0, and for a limit of 0 it is 0.                               *)

\* The $skip value the last call, a paginate, appended.
SkipAppended == heap[pipeline[ret.self]][Len(heap[pipeline[ret.self]]) - 1]["$skip"]

\* The statement as first made.
C23_EveryLimitGivesNegativeSkip ==
  (ret.op = "paginate" /\ Default(ret.args[2], 1) <= 0) => SkipAppended < 0

C23_PositiveLimitGivesNegativeSkip ==
  (ret.op = "paginate" /\ Default(ret.args[2], 1) <= 0) =>
    /\ KindOf(heap[pipeline[ret.self]][Len(heap[pipeline[ret.self]]) - 1]) = "$skip"
    /\ Default(ret.args[1], 10) > 0 => SkipAppended < 0
    /\ Default(ret.args[1], 10) = 0 => SkipAppended = 0

\* paginate(10, 0), and paginate() with the page -2 and the default limit.
C23_Witness ==
  /\ ret.op = "paginate"
  /\ \/ ret.args = <<Given(10), Given(0)>> /\ SkipAppended = -10
     \/ ret.args = <<Omitted, Given(-2)>> /\ SkipAppended = -30

-----------------------------------------------------------------------------
(* C24.  The two joins emit descriptors of different shapes.  The payload  *)
(* of lookup has exactly the keys from, localField, foreignField and as,   *)
(* each with the value of the parameter of that name.  The payload of      *)
(* customLookup has exactly the keys from, let, pipeline and as, and so    *)
(* never a localField or a foreignField key.                               *)
C24_JoinShapes ==
  \A b \in Builders :
    LET payload == Last(heap[pipeline[b]])["$lookup"]
        params == ret.args[1]
    IN  /\ (ret.op = "lookup" /\ ret.self = b) =>
             /\ DOMAIN Last(heap[pipeline[b]]) = {"$lookup"}
             /\ DOMAIN payload = {"from", "localField", "foreignField", "as"}
             /\ \A k \in DOMAIN payload : payload[k] = params[k]
        /\ (ret.op = "customLookup" /\ ret.self = b) =>
             /\ DOMAIN Last(heap[pipeline[b]]) = {"$lookup"}
             /\ DOMAIN payload = {"from", "let", "pipeline", "as"}
             /\ {"localField", "foreignField"} \cap DOMAIN payload = {}
             /\ payload.from = params.collectionName
             /\ payload.as = params.as

\* A lookup and then a customLookup on one builder: both shapes in one
\* pipeline.
C24_Witness ==
  /\ ret.op = "customLookup"
  /\ Len(heap[pipeline[ret.self]]) >= 2
  /\ LET s == heap[pipeline[ret.self]]
     IN  /\ KindOf(s[Len(s) - 1]) = "$lookup"
         /\ DOMAIN s[Len(s) - 1]["$lookup"] = {"from", "localField", "foreignField", "as"}
         /\ DOMAIN s[Len(s)]["$lookup"] = {"from", "let", "pipeline", "as"}

-----------------------------------------------------------------------------
(* C25.  unwind(path, flag) appends one descriptor, $unwind with the       *)
(* payload { path, preserveNullAndEmptyArrays: flag }: path is the         *)
(* caller's string as given, and the flag is false when the second         *)
(* argument is omitted.                                                    *)
C25_UnwindStep ==
  \A b \in Builders :
    (ret'.op = "unwind" /\ ret'.self = b) =>
      LET a == pipeline[b]
          path == ret'.args[1]
          flagOpt == ret'.args[2]
      IN  /\ pipeline' = pipeline
          /\ Len(heap'[a]) = Len(heap[a]) + 1
          /\ Front(heap'[a]) = heap[a]
          /\ DOMAIN Last(heap'[a]) = {"$unwind"}
          /\ DOMAIN Last(heap'[a])["$unwind"] = {"path", "preserveNullAndEmptyArrays"}
          /\ Last(heap'[a])["$unwind"].path = path
          /\ Last(heap'[a])["$unwind"].preserveNullAndEmptyArrays =
               (IF flagOpt = Omitted THEN FALSE ELSE flagOpt[1])

C25_UnwindPayload == [][C25_UnwindStep]_vars

\* unwind("author") with the flag omitted, after another descriptor.
C25_Witness ==
  /\ ret.op = "unwind"
  /\ ret.args = <<"author", Omitted>>
  /\ Len(heap[pipeline[ret.self]]) = 2
  /\ Last(heap[pipeline[ret.self]]) =
       "$unwind" :> [path |-> "author", preserveNullAndEmptyArrays |-> FALSE]

-----------------------------------------------------------------------------
(* C26.  listPaginated(filter, page, limit) of the example subclass        *)
(* paginates with the page size limit and the page number page, counted    *)
(* from 1: after the $match descriptor it appends $skip with               *)
(* limit * (page - 1) and then $limit with limit.                          *)
C26_ListPaginatedSkipsByLimit ==
  ret.op = "listPaginated" =>
    LET s == heap[ret.ref]
        n == Len(s)
        filter == ret.args[1]
        page == ret.args[2]
        lim == ret.args[3]
    IN  /\ n >= 3
        /\ s[n - 2] = "$match" :> filter
        /\ s[n - 1] = "$skip" :> (lim * (page - 1))
        /\ s[n] = "$limit" :> lim

-----------------------------------------------------------------------------
(* C27.  execute() never shortens the pipeline, so executions accumulate:  *)
(* of two execute() calls on one builder with no reset() and no            *)
(* assemble(true) between them, the second submits a sequence that begins  *)
(* with the sequence the first submitted and goes on with every descriptor *)
(* appended in between, in the order of the calls.  The history keeps what *)
(* a builder's execute() calls have submitted since it was last cleared,   *)
(* so every execute() is compared with each of them, whether the earlier   *)
(* request is still waiting or has been answered.  Besides, execute leaves *)
(* the array as it is, and no call other than reset or a clearing          *)
(* assemble takes a descriptor out of it.                                  *)

IsPrefix(s, t) == Len(s) <= Len(t) /\ SubSeq(t, 1, Len(s)) = s

\* The builder's pipeline was cleared by the step: reset() or assemble(true).
Clears(b) ==
  /\ ret'.self = b
  /\ ret'.op = "reset" \/ AssembledClearing(ret')

\* Any two submissions of a builder with no clearing between them: the later
\* one is the earlier one followed by the descriptors appended in between.
C27_AnyTwoSubmissions ==
  \A b \in Builders :
    \A first \in submitted[b], second \in submitted[b] :
      first.at <= second.at =>
        /\ IsPrefix(first.snap, second.snap)
        /\ second.snap = first.snap \o SubSeq(appended[b], first.at + 1, second.at)

C27_Step ==
  \A b \in Builders :
    /\ (ret'.op = "execute" /\ ret'.kind = "pending" /\ ret'.self = b) =>
         /\ heap' = heap
         /\ pipeline' = pipeline
         /\ Len(inflight') = Len(inflight) + 1
         /\ Last(inflight').self = b
         /\ Last(inflight').snap = heap[pipeline[b]]
         /\ \A first \in submitted[b] :
              /\ IsPrefix(first.snap, Last(inflight').snap)
              /\ Last(inflight').snap =
                   first.snap
                     \o SubSeq(appended[b], first.at + 1, Len(appended[b]))
    /\ ~Clears(b) =>
         /\ pipeline'[b] = pipeline[b]
         /\ heap'[pipeline[b]] =
              heap[pipeline[b]]
                \o SubSeq(appended'[b], Len(appended[b]) + 1, Len(appended'[b]))
         /\ submitted[b] \subseteq submitted'[b]
    /\ Clears(b) => submitted'[b] = {}

C27_ExecutionsAccumulate == []C27_AnyTwoSubmissions /\ [][C27_Step]_vars

\* The second execute() has just been called: the first one submitted one
\* descriptor or more and has been answered, the builder has not been
\* cleared and has been given descriptors of another kind since, and the
\* request now waiting holds the longer sequence.
C27_Witness ==
  /\ ret.op = "execute"
  /\ ret.kind = "pending"
  /\ inflight # <<>>
  /\ \E first \in submitted[ret.self] :
       /\ Len(first.snap) >= 1
       /\ first.at < Len(appended[ret.self])
       /\ Len(Last(inflight).snap) > Len(first.snap)
       /\ Last(inflight).snap[Len(first.snap) + 1] # first.snap[Len(first.snap)]
       /\ Last(inflight).self = ret.self
       /\ \A i \in DOMAIN inflight : inflight[i].snap # first.snap

-----------------------------------------------------------------------------
(* C28.  assemble(true) does what assemble(false) followed by reset()      *)
(* does.  From any state, assemble(true) returns the builder's array with  *)
(* the descriptors it held, binds the builder to a new empty array and     *)
(* leaves the collection alone.  assemble(false) returns the same array    *)
(* with the same descriptors and changes nothing; the reset() after it     *)
(* leaves the returned array as it was, binds the builder to a new empty   *)
(* array and leaves the collection alone.  Both ways end with the same     *)
(* heap, the same binding and the same collection.                         *)

\* The heap, the bindings and the collections that assemble(true) on b leaves
\* behind, computed from the state the call starts in.
AfterClearing(b) ==
  [heap |-> heap @@ (Fresh(heap) :> <<>>),
   pipeline |-> [pipeline EXCEPT ![b] = Fresh(heap)],
   collection |-> collection]

C28_Step ==
  \A b \in Builders :
    \* assemble(true), assemble()
    /\ (AssembledClearing(ret') /\ ret'.self = b) =>
         /\ ret'.ref = pipeline[b]
         /\ heap'[ret'.ref] = heap[pipeline[b]]
         /\ heap'[pipeline'[b]] = <<>>
         /\ [heap |-> heap', pipeline |-> pipeline', collection |-> collection']
              = AfterClearing(b)
    \* assemble(false)
    /\ (AssembledKeeping(ret') /\ ret'.self = b) =>
         /\ ret'.ref = pipeline[b]
         /\ heap' = heap /\ pipeline' = pipeline /\ collection' = collection
    \* reset() right after assemble(false): ret still holds what it returned
    /\ (ret'.op = "reset" /\ ret'.self = b /\ AssembledKeeping(ret) /\ ret.self = b) =>
         /\ ret.ref = pipeline[b]
         /\ heap'[ret.ref] = heap[ret.ref]
         /\ heap'[pipeline'[b]] = <<>>
         /\ [heap |-> heap', pipeline |-> pipeline', collection |-> collection']
              = AfterClearing(b)

C28_AssembleTrueIsAssembleFalseThenReset == [][C28_Step]_vars

\* assemble(true) has returned a non-empty sequence earlier; now
\* assemble(false) has returned a sequence of the same descriptors, on a
\* builder bound to a collection, and reset() can follow.
C28_Witness ==
  /\ AssembledKeeping(ret)
  /\ heap[ret.ref] # <<>>
  /\ collection[ret.self] # NoCollection
  /\ \E a \in owned : heap[a] = heap[ret.ref]
  /\ CanCreate

-----------------------------------------------------------------------------
(* C29.  reset() replaces the internal sequence, it does not empty it in   *)
(* place: every sequence that exists when reset() is called, the one an    *)
(* earlier assemble(false) returned and a seed passed to the constructor   *)
(* among them, keeps its length and contents, and the builder goes on with *)
(* a sequence that did not exist before.  A sequence no builder is bound   *)
(* to is changed by no later call, so descriptors appended after reset()   *)
(* never appear in it.                                                     *)
C29_Step ==
  /\ \A b \in Builders :
       (ret'.op = "reset" /\ ret'.self = b) =>
         /\ \A a \in DOMAIN heap : a \in DOMAIN heap' /\ heap'[a] = heap[a]
         /\ AssembledKeeping(ret) => heap'[ret.ref] = heap[ret.ref]
         /\ pipeline'[b] \notin DOMAIN heap
         /\ pipeline[b] \notin {pipeline'[c] : c \in Builders}
         /\ heap'[pipeline'[b]] = <<>>
  /\ \A a \in DOMAIN heap :
       a \notin {pipeline[c] : c \in Builders} =>
         /\ a \in DOMAIN heap'
         /\ heap'[a] = heap[a]
         /\ a \notin {pipeline'[c] : c \in Builders}

C29_ResetReplacesTheSequence == [][C29_Step]_vars

\* The builder was constructed on a non-empty seed and reset; the only
\* assemble since, if any, kept the pipeline.  A descriptor has been appended
\* after the reset, and the seed is as the caller made it.
C29_Witness ==
  /\ 1 \in seeds
  /\ heap[1] # <<>>
  /\ heap[1] \in SeedPipelines
  /\ owned = {}
  /\ pipeline[1] # 1
  /\ ret.op = "match"
  /\ heap[pipeline[1]] # <<>>

=============================================================================
